---- MODULE Spec2Model ----
\* Model of the JDM mock JSON database server (src/server.js, the 1.1.0-AUTH-FIX
\* server that starts at line 760): storage engine, JWT authentication, the
\* table and record routes, and the schema validation engine.
EXTENDS Integers, Sequences, FiniteSets, TLC

VARIABLES
    mode,       \* STORE_MODE: "local" (files) or "mongodb" (documents)
    now,        \* Date.now(), in milliseconds
    exists,     \* per user id: the user directory (local) or users document (mongodb) exists
    sessions,   \* per user id: the stored session list
    store,      \* per user id and container name: the stored container
    issued,     \* the tokens the server has signed so far (what callers can present)
    userCount,  \* how many user ids uuidv4 has produced
    nextId,     \* how many record ids uuidv4 has produced
    last,       \* the request answered last
    resp,       \* the response sent last
    vPayload,   \* validateAgainstSchema: the payload argument
    vSchema,    \* validateAgainstSchema: the schema argument
    vResult,    \* validateAgainstSchema: the returned value
    vPc,        \* "init" before the call, "done" after it
    flight,     \* per connection: the request being handled and how far its handler is
    deleted,    \* per record id: how many overlapping DELETE requests on it were answered 204
    answered,   \* how many overlapping requests have been answered
    acks,       \* the overlapping requests that wrote and were answered
    removed,    \* the custom paths taken off a table and not put back since
    pending,    \* per connection: the login being handled and how far it is
    seen        \* req.url of the request answered last, as received and as the routes got it

valVars == <<vPayload, vSchema, vResult, vPc>>
srvVars == <<mode, now, exists, sessions, store, issued, userCount, nextId, last, resp>>
concVars == <<flight, deleted, answered, acks>>
aliasVars == <<removed>>
loginVars == <<pending>>
urlVars == <<seen>>
vars == <<srvVars, valVars, concVars, aliasVars, loginVars, urlVars>>

\* ---------------------------------------------------------------------
\* JSON values. A value keeps its JavaScript type and its String() form.
\* ---------------------------------------------------------------------
Str(x) == [t |-> "string", v |-> x]
Num(x) == [t |-> "number", v |-> x]
Bool(x) == [t |-> "boolean", v |-> x]
Null == [t |-> "null", v |-> "null"]

\* typeof val
TypeOf(val) == IF val.t = "null" THEN "object" ELSE val.t

\* String(val)
ToStringJS(val) == val.v

\* Strings that V8's Date.parse accepts, with the day number they denote.
ParsableDates == {"2024-01-01", "1"}

DateDay(s) == IF s = "2024-01-01" THEN 19723 ELSE 11323

\* Date.parse(val): the argument is converted with String() and then parsed;
\* the result is NaN or a timestamp (kept here as a day number).
DateParse(val) ==
    LET s == ToStringJS(val) IN
    IF s \in ParsableDates THEN [nan |-> FALSE, day |-> DateDay(s)]
    ELSE [nan |-> TRUE, day |-> 0]

\* ---------------------------------------------------------------------
\* Schema & validation engine
\* ---------------------------------------------------------------------
\* A schema is the ordered list of the entries of the _schema object.
SchemaTypes == {"String", "Number", "Boolean", "Date"}

NoError == [err |-> FALSE, field |-> "", expects |-> ""]
FieldError(key, what) == [err |-> TRUE, field |-> key, expects |-> what]

\* The check of one schema entry against the payload: the error it returns, or
\* NoError when the loop goes on to the next entry.
CheckEntryNoNullSkip(payload, key, type) ==
    IF key \notin DOMAIN payload THEN NoError
    ELSE LET val == payload[key] IN
         IF type = "String" /\ TypeOf(val) # "string" THEN FieldError(key, "String")
         ELSE IF type = "Number" /\ TypeOf(val) # "number" THEN FieldError(key, "Number")
         ELSE IF type = "Boolean" /\ TypeOf(val) # "boolean" THEN FieldError(key, "Boolean")
         ELSE IF type = "Date" /\ DateParse(val).nan
              THEN FieldError(key, "a valid ISO Date string")
         ELSE NoError

CheckEntry(payload, key, type) ==
    IF key \notin DOMAIN payload \/ payload[key] = Null THEN NoError
    ELSE LET val == payload[key] IN
         IF type = "String" /\ TypeOf(val) # "string" THEN FieldError(key, "String")
         ELSE IF type = "Number" /\ TypeOf(val) # "number" THEN FieldError(key, "Number")
         ELSE IF type = "Boolean" /\ TypeOf(val) # "boolean" THEN FieldError(key, "Boolean")
         ELSE IF type = "Date" /\ DateParse(val).nan
              THEN FieldError(key, "a valid ISO Date string")
         ELSE NoError

RECURSIVE ValidateFrom(_, _, _)
ValidateFrom(payload, schema, i) ==
    IF i > Len(schema) THEN NoError
    ELSE LET e == CheckEntry(payload, schema[i].key, schema[i].type) IN
         IF e.err THEN e ELSE ValidateFrom(payload, schema, i + 1)

validateAgainstSchema(payload, schema) ==
    IF Len(schema) = 0 THEN NoError ELSE ValidateFrom(payload, schema, 1)

\* ---------------------------------------------------------------------
\* Tables and containers
\* ---------------------------------------------------------------------
\* An object with no keys ({}), also the empty list of object entries.
EmptyObj == <<>>

\* { ...a, ...b }
Merge(a, b) ==
    [k \in (DOMAIN a) \cup (DOMAIN b) |-> IF k \in DOMAIN b THEN b[k] ELSE a[k]]

\* delete obj[k]
Without(obj, keys) == [k \in (DOMAIN obj) \ keys |-> obj[k]]

\* A table is a bare array of records, or a structured object
\* { _schema, _customPaths, records }.
BareTable(recs) ==
    [structured |-> FALSE, schema |-> <<>>, customPaths |-> EmptyObj, records |-> recs]
StructuredTable(schema, customPaths, recs) ==
    [structured |-> TRUE, schema |-> schema, customPaths |-> customPaths, records |-> recs]

\* getTableRecords
getTableRecords(tbl) == tbl.records

\* A container is the ordered list of the entries (table name, table) of its
\* JSON object.
TableIndex(data, t) ==
    IF \E i \in 1..Len(data) : data[i].name = t
    THEN CHOOSE i \in 1..Len(data) : data[i].name = t
    ELSE 0
HasTable(data, t) == TableIndex(data, t) # 0
TableOf(data, t) == data[TableIndex(data, t)].tbl

\* data[t] = tbl
SetTable(data, t, tbl) ==
    IF HasTable(data, t)
    THEN [data EXCEPT ![TableIndex(data, t)] = [name |-> t, tbl |-> tbl]]
    ELSE Append(data, [name |-> t, tbl |-> tbl])

\* delete data[t]
DelTable(data, t) ==
    LET i == TableIndex(data, t) IN
    IF i = 0 THEN data
    ELSE [j \in 1..(Len(data) - 1) |-> IF j < i THEN data[j] ELSE data[j + 1]]

\* records.findIndex(r => r.id === id), 0 for -1. The id of the URL is a string,
\* and === holds only for a string id with the same characters.
FindIndex(recs, id) ==
    LET hits == {i \in 1..Len(recs) : "id" \in DOMAIN recs[i] /\ recs[i]["id"] = Str(id)} IN
    IF hits = {} THEN 0 ELSE CHOOSE i \in hits : \A j \in hits : i <= j

\* records.splice(idx, 1)
Splice(recs, idx) ==
    [j \in 1..(Len(recs) - 1) |-> IF j < idx THEN recs[j] ELSE recs[j + 1]]

\* JavaScript truthiness of a field that may be absent
Truthy(obj, k) ==
    /\ k \in DOMAIN obj
    /\ obj[k] \notin {Null, Bool("false"), Str(""), Num("0")}

\* ---------------------------------------------------------------------
\* Storage engine
\* ---------------------------------------------------------------------
Modes == {"local", "mongodb"}

UserNames == <<"A", "B", "C", "D">>
UserIds == {UserNames[i] : i \in 1..Len(UserNames)}
ContainerNames == {"c", "c2"}

\* A stored container: absent, complete ("ok"), or, for a file that fs.writeFile
\* has truncated and not yet filled, "torn".
AbsentFile == [st |-> "absent", data |-> <<>>]
OkFile(data) == [st |-> "ok", data |-> data]
TornFile == [st |-> "torn", data |-> <<>>]

\* Storage.readContainer: the parsed content, or null (found = FALSE) when
\* the document is missing or the file cannot be read or parsed.
readContainer(st, userId, name) ==
    LET f == IF name \in DOMAIN st[userId] THEN st[userId][name] ELSE AbsentFile IN
    IF f.st = "ok" THEN [found |-> TRUE, data |-> f.data]
    ELSE [found |-> FALSE, data |-> <<>>]

\* A writeContainer that would keep the stored tables that data does not have
writeContainerMerging(st, userId, name, data) ==
    LET old == st[userId][name].data
        kept == SelectSeq(old, LAMBDA e : ~HasTable(data, e.name))
    IN [st EXCEPT ![userId][name] = OkFile(data \o kept)]

\* Storage.writeContainer, as one step
writeContainer(st, userId, name, data) ==
    [st EXCEPT ![userId][name] = OkFile(data)]

\* Storage.deleteContainer
deleteContainer(st, userId, name) ==
    [st EXCEPT ![userId][name] = AbsentFile]

\* Storage.listContainers
listContainers(st, userId) ==
    {c \in ContainerNames : st[userId][c].st # "absent"}

\* Storage.deleteUser: the store without anything of userId
deleteUserStore(st, userId) ==
    [st EXCEPT ![userId] = [c \in ContainerNames |-> AbsentFile]]

\* ---------------------------------------------------------------------
\* Tokens (jsonwebtoken) and authentication
\* ---------------------------------------------------------------------
Roles == {"admin", "viewer"}

NoToken == [userId |-> "", role |-> "", iat |-> 0, exp |-> 0, sig |-> "absent"]

\* jwt.sign({ userId, role }, JWT_SECRET, { expiresIn: `${expiresIn}ms` }):
\* iat is the time in whole seconds and exp = floor(iat + expiresIn / 1000).
JwtSign(userId, role, expiresIn, t) ==
    [userId |-> userId, role |-> role, iat |-> t \div 1000,
     exp |-> (t \div 1000) + (expiresIn \div 1000), sig |-> "server"]

\* jwt.verify(token, JWT_SECRET): the signature is the server's and the time
\* in whole seconds is before exp.
JwtVerify(token, t) == token.sig = "server" /\ (t \div 1000) < token.exp

NoHeader == "none"

\* The headers and cookie of a request that authentication looks at: the
\* x-user-id header (uid), the x-api-key header (apiKey), a token, and where
\* the token is carried: the Authorization header, a csrf-token / x-csrf-token
\* header, or the auth_token cookie.
Carriers == {"authorization", "csrf", "cookie"}
NoCred == [uid |-> NoHeader, apiKey |-> NoHeader, token |-> NoToken, carrier |-> "none"]

\* A token that the server did not sign
ForgedToken == [userId |-> "A", role |-> "admin", iat |-> 0, exp |-> 3600, sig |-> "bad"]

Denied(req, status, error) ==
    [ok |-> FALSE, status |-> status, error |-> error, userId |-> NoHeader,
     role |-> "", via |-> "none", req |-> req]
Granted(req, userId, role, via) ==
    [ok |-> TRUE, status |-> 200, error |-> "", userId |-> userId,
     role |-> role, via |-> via, req |-> req]

\* authenticate without the comparison of decoded.userId with x-user-id
authenticateNoMismatch(req, t) ==
    IF req.apiKey # NoHeader /\ req.apiKey = req.uid
    THEN Granted(req, req.uid, "admin", "apikey")
    ELSE IF req.token # NoToken /\ JwtVerify(req.token, t)
    THEN Granted(req, IF req.uid = NoHeader THEN req.token.userId ELSE req.uid,
                 req.token.role, "token")
    ELSE IF req.token # NoToken /\ req.uid # NoHeader
    THEN Denied(req, 401, "Invalid or expired session")
    ELSE IF req.uid = NoHeader
    THEN Denied(req, 401, "Unauthorized: Missing User ID or valid Session")
    ELSE Denied(req, 401, "Unauthorized: Access Denied")

\* authenticate with the token looked at before the API key
authenticateTokenFirst(req, t) ==
    IF req.token # NoToken /\ JwtVerify(req.token, t)
          /\ (req.uid = NoHeader \/ req.token.userId = req.uid)
    THEN Granted(req, req.token.userId, req.token.role, "token")
    ELSE IF req.token # NoToken /\ req.uid # NoHeader
    THEN Denied(req, 401, "Invalid or expired session")
    ELSE IF req.apiKey # NoHeader /\ req.apiKey = req.uid
    THEN Granted(req, req.uid, "admin", "apikey")
    ELSE IF req.uid = NoHeader
    THEN Denied(req, 401, "Unauthorized: Missing User ID or valid Session")
    ELSE Denied(req, 401, "Unauthorized: Access Denied")

\* authenticate: req carries the x-user-id header (uid), the x-api-key header
\* (apiKey) and the bearer / CSRF / cookie token.
authenticate(req, t) ==
    IF req.apiKey # NoHeader /\ req.apiKey = req.uid
    THEN Granted(req, req.uid, "admin", "apikey")
    ELSE IF req.token # NoToken /\ JwtVerify(req.token, t)
              /\ (req.uid = NoHeader \/ req.token.userId = req.uid)
    THEN Granted(req, req.token.userId, req.token.role, "token")
    ELSE IF req.token # NoToken /\ req.uid # NoHeader
    THEN Denied(req, 401, "Invalid or expired session")
    ELSE IF req.uid = NoHeader
    THEN Denied(req, 401, "Unauthorized: Missing User ID or valid Session")
    ELSE Denied(req, 401, "Unauthorized: Access Denied")

\* ---------------------------------------------------------------------
\* Route handlers, as functions of what readContainer returned (rd) and the
\* request. A result says what is answered and, when write is TRUE, the
\* container that Storage.writeContainer stores.
\* ---------------------------------------------------------------------
Answer(status, error, body) ==
    [status |-> status, error |-> error, detail |-> NoError, body |-> body,
     write |-> FALSE, data |-> <<>>]
AnswerWrite(status, body, data) ==
    [status |-> status, error |-> "", detail |-> NoError, body |-> body,
     write |-> TRUE, data |-> data]
\* 400 `Validation Error: ${validationError}`
AnswerInvalid(e) ==
    [status |-> 400, error |-> "Validation Error", detail |-> e, body |-> <<>>,
     write |-> FALSE, data |-> <<>>]

Forbidden == Answer(403, "Forbidden: Admin role required for mutation", <<>>)

\* The records of table t replaced by recs
WithRecords(data, t, recs) ==
    SetTable(data, t, [TableOf(data, t) EXCEPT !.records = recs])

\* app.post('/:container/:table') from the point where data[table] exists
\* (fields is req.body without _schema and _customPaths)
InsertRecord(data, t, fields, newId) ==
    LET tbl == TableOf(data, t)
        e == IF tbl.structured THEN validateAgainstSchema(fields, tbl.schema) ELSE NoError
        newRecord == Merge([k \in {"id"} |-> Str(newId)], fields)
    IN  IF e.err THEN AnswerInvalid(e)
        ELSE AnswerWrite(201, <<newRecord>>, WithRecords(data, t, Append(tbl.records, newRecord)))

\* A create that would store a table made from _schema before it validates
\* the fields of the body
postRecordEager(rd, t, body, role, newId) ==
    IF role # "admin" THEN Forbidden
    ELSE
    LET data == IF rd.found THEN rd.data ELSE <<>> IN
    IF ~HasTable(data, t) /\ body.hasSchema THEN
        LET d1 == SetTable(data, t, StructuredTable(body.schema, body.customPaths, <<>>))
            h == InsertRecord(d1, t, body.fields, newId)
        IN
        IF DOMAIN body.fields = {} THEN AnswerWrite(201, <<>>, d1)
        ELSE IF h.write THEN h
        ELSE [h EXCEPT !.write = TRUE, !.data = d1]
    ELSE IF ~HasTable(data, t) THEN
        IF Truthy(body.fields, "_init")
        THEN AnswerWrite(201, <<>>,
                 SetTable(data, t, StructuredTable(<<>>, body.customPaths, <<>>)))
        ELSE InsertRecord(SetTable(data, t, BareTable(<<>>)), t, body.fields, newId)
    ELSE IF Truthy(body.fields, "_init") THEN Answer(400, "already exists", <<>>)
    ELSE InsertRecord(data, t, body.fields, newId)

\* app.post('/:container/:table')
postRecord(rd, t, body, role, newId) ==
    IF role # "admin" THEN Forbidden
    ELSE
    LET data == IF rd.found THEN rd.data ELSE <<>> IN
    IF ~HasTable(data, t) /\ body.hasSchema THEN
        LET d1 == SetTable(data, t, StructuredTable(body.schema, body.customPaths, <<>>)) IN
        IF DOMAIN body.fields = {}
        THEN AnswerWrite(201, <<>>, d1)
        ELSE InsertRecord(d1, t, body.fields, newId)
    ELSE IF ~HasTable(data, t) THEN
        IF Truthy(body.fields, "_init")
        THEN AnswerWrite(201, <<>>,
                 SetTable(data, t, StructuredTable(<<>>, body.customPaths, <<>>)))
        ELSE InsertRecord(SetTable(data, t, BareTable(<<>>)), t, body.fields, newId)
    ELSE IF Truthy(body.fields, "_init") THEN Answer(400, "already exists", <<>>)
    ELSE InsertRecord(data, t, body.fields, newId)

\* app.get('/:container/:table') without query parameters
getRecords(rd, t) ==
    IF ~rd.found \/ ~HasTable(rd.data, t) THEN Answer(404, "Table not found", <<>>)
    ELSE Answer(200, "", getTableRecords(TableOf(rd.data, t)))

\* app.get('/:container/:table/:id')
getRecord(rd, t, id) ==
    IF ~rd.found \/ ~HasTable(rd.data, t) THEN Answer(404, "Table not found", <<>>)
    ELSE LET records == getTableRecords(TableOf(rd.data, t))
             idx == FindIndex(records, id)
         IN  IF idx = 0 THEN Answer(404, "Record not found", <<>>)
             ELSE Answer(200, "", <<records[idx]>>)

\* app.put('/:container/:table/:id')
putRecord(rd, t, id, fields, role) ==
    IF role # "admin" THEN Forbidden
    ELSE IF ~rd.found \/ ~HasTable(rd.data, t) THEN Answer(404, "Table not found", <<>>)
    ELSE LET tbl == TableOf(rd.data, t)
             idx == FindIndex(tbl.records, id)
             e == IF tbl.structured THEN validateAgainstSchema(fields, tbl.schema) ELSE NoError
             rec == Merge([k \in {"id"} |-> Str(id)], fields)
         IN  IF idx = 0 THEN Answer(404, "Record not found", <<>>)
             ELSE IF e.err THEN AnswerInvalid(e)
             ELSE AnswerWrite(200, <<rec>>,
                      WithRecords(rd.data, t, [tbl.records EXCEPT ![idx] = rec]))

\* app.delete('/:container/:table/:id')
deleteRecord(rd, t, id, role) ==
    IF role # "admin" THEN Forbidden
    ELSE IF ~rd.found \/ ~HasTable(rd.data, t) THEN Answer(404, "Table not found", <<>>)
    ELSE LET tbl == TableOf(rd.data, t)
             idx == FindIndex(tbl.records, id)
         IN  IF idx = 0 THEN Answer(404, "Record not found", <<>>)
             ELSE AnswerWrite(204, <<>>, WithRecords(rd.data, t, Splice(tbl.records, idx)))

\* app.patch('/:container/:table/:id') with the fields merged in the order of
\* app.put, { id, ...req.body }
patchRecordBodyIdWins(rd, t, id, fields, role) ==
    IF ~rd.found \/ ~HasTable(rd.data, t) THEN Answer(404, "Table not found", <<>>)
    ELSE LET tbl == TableOf(rd.data, t)
             idx == FindIndex(tbl.records, id)
             e == IF tbl.structured THEN validateAgainstSchema(fields, tbl.schema) ELSE NoError
         IN  IF idx = 0 THEN Answer(404, "Record not found", <<>>)
             ELSE IF e.err THEN AnswerInvalid(e)
             ELSE LET rec == Merge(Merge(tbl.records[idx], [k \in {"id"} |-> Str(id)]), fields)
                  IN  AnswerWrite(200, <<rec>>,
                          WithRecords(rd.data, t, [tbl.records EXCEPT ![idx] = rec]))

\* app.patch('/:container/:table/:id')
patchRecord(rd, t, id, fields, role) ==
    IF ~rd.found \/ ~HasTable(rd.data, t) THEN Answer(404, "Table not found", <<>>)
    ELSE LET tbl == TableOf(rd.data, t)
             idx == FindIndex(tbl.records, id)
             e == IF tbl.structured THEN validateAgainstSchema(fields, tbl.schema) ELSE NoError
         IN  IF idx = 0 THEN Answer(404, "Record not found", <<>>)
             ELSE IF e.err THEN AnswerInvalid(e)
             ELSE LET rec == Merge(Merge(tbl.records[idx], fields), [k \in {"id"} |-> Str(id)])
                  IN  AnswerWrite(200, <<rec>>,
                          WithRecords(rd.data, t, [tbl.records EXCEPT ![idx] = rec]))

\* app.delete('/:container/:table')
deleteTable(rd, t) ==
    IF ~rd.found \/ ~HasTable(rd.data, t) THEN Answer(404, "Table not found", <<>>)
    ELSE AnswerWrite(204, <<>>, DelTable(rd.data, t))

\* A rename that would not look for a table named newName
renameTableOver(rd, t, newName) ==
    IF newName = "" THEN Answer(400, "Bad Request: newName required", <<>>)
    ELSE IF ~rd.found \/ ~HasTable(rd.data, t) THEN Answer(404, "Table not found", <<>>)
    ELSE AnswerWrite(200, <<>>,
             DelTable(SetTable(rd.data, newName, TableOf(rd.data, t)), t))

\* app.patch('/:container/:table/rename'); newName "" stands for a body
\* without newName
renameTable(rd, t, newName) ==
    IF newName = "" THEN Answer(400, "Bad Request: newName required", <<>>)
    ELSE IF ~rd.found \/ ~HasTable(rd.data, t) THEN Answer(404, "Table not found", <<>>)
    ELSE IF HasTable(rd.data, newName) THEN Answer(400, "already exists", <<>>)
    ELSE AnswerWrite(200, <<>>,
             DelTable(SetTable(rd.data, newName, TableOf(rd.data, t)), t))

\* The rename entries of a bulk transform, applied in order to one record
RECURSIVE ApplyRename(_, _, _)
ApplyRename(rec, rename, i) ==
    IF i > Len(rename) THEN rec
    ELSE LET o == rename[i].o
             n == rename[i].n
             r1 == IF o \in DOMAIN rec
                   THEN Without(Merge(rec, [k \in {n} |-> rec[o]]), {o})
                   ELSE rec
         IN  ApplyRename(r1, rename, i + 1)

\* A callback that would assign the set fields first, then rename and remove
TransformRecordSetFirst(rec, tr) ==
    Without(ApplyRename(Merge(rec, tr.set), tr.rename, 1), tr.remove)

\* The callback of records.map in app.patch('/:container/:table/schema')
TransformRecord(rec, tr) ==
    Merge(Without(ApplyRename(rec, tr.rename, 1), tr.remove), tr.set)

\* app.patch('/:container/:table/schema')
bulkSchema(rd, t, tr) ==
    IF ~rd.found \/ ~HasTable(rd.data, t) THEN Answer(400, "invalid or not found", <<>>)
    ELSE LET records == TableOf(rd.data, t).records
             updatedRecords == [i \in 1..Len(records) |-> TransformRecord(records[i], tr)]
         IN  AnswerWrite(200, <<[count |-> Len(updatedRecords)]>>,
                         WithRecords(rd.data, t, updatedRecords))

SchemaHas(schema, name) == \E i \in 1..Len(schema) : schema[i].key = name
SchemaWithout(schema, name) ==
    SelectSeq(schema, LAMBDA e : e.key # name)

\* A schema-definition whose upgrade of a bare table would start from an
\* empty record list
schemaDefinitionFresh(rd, t, sd, role) ==
    IF role # "admin" THEN Forbidden
    ELSE IF ~rd.found \/ ~HasTable(rd.data, t) THEN Answer(404, "Table not found", <<>>)
    ELSE LET tbl == TableOf(rd.data, t) IN
         IF tbl.structured /\ sd.remove = "" /\ SchemaHas(tbl.schema, sd.name)
         THEN Answer(400, "Column already exists", <<>>)
         ELSE AnswerWrite(200, <<>>, SetTable(rd.data, t,
                  StructuredTable(<<[key |-> sd.name, type |-> sd.type]>>, EmptyObj, <<>>)))

\* app.patch('/:container/:table/schema-definition'); sd.name, sd.type and
\* sd.remove are "" when the body does not carry them
schemaDefinition(rd, t, sd, role) ==
    IF role # "admin" THEN Forbidden
    ELSE IF ~rd.found \/ ~HasTable(rd.data, t) THEN Answer(404, "Table not found", <<>>)
    ELSE LET tbl == TableOf(rd.data, t) IN
         IF tbl.structured THEN
             IF sd.remove # ""
             THEN AnswerWrite(200, <<>>, SetTable(rd.data, t,
                      [tbl EXCEPT !.schema = SchemaWithout(tbl.schema, sd.remove)]))
             ELSE IF sd.name # "" /\ sd.type # "" THEN
                 IF SchemaHas(tbl.schema, sd.name)
                 THEN Answer(400, "Column already exists", <<>>)
                 ELSE AnswerWrite(200, <<>>, SetTable(rd.data, t,
                          [tbl EXCEPT !.schema =
                              Append(tbl.schema, [key |-> sd.name, type |-> sd.type])]))
             ELSE AnswerWrite(200, <<>>, rd.data)
         ELSE IF sd.name # "" /\ sd.type # ""
         THEN AnswerWrite(200, <<>>, SetTable(rd.data, t,
                  StructuredTable(<<[key |-> sd.name, type |-> sd.type]>>, EmptyObj,
                                  tbl.records)))
         ELSE AnswerWrite(200, <<>>, rd.data)

\* ---------------------------------------------------------------------
\* The server: state after startup
\* ---------------------------------------------------------------------
MaxUsers == 2       \* user ids produced by uuidv4 (register, update-uuid)
OneUser == 1        \* registrations in the specifications of a single workspace
MaxIds == 1         \* record ids produced by uuidv4
MaxTicks == 3       \* clock steps
TickMs == 500       \* length of a clock step, in milliseconds

RecIds == <<"u1", "u2", "u3", "u4">>

NoReq ==
    [route |-> "none", via |-> "none", user |-> NoHeader, role |-> "",
     c |-> "", t |-> "", id |-> "", fields |-> EmptyObj, cred |-> NoCred]
NoResp == [status |-> 0, error |-> "", detail |-> NoError, body |-> <<>>, names |-> {}]

SrvInit ==
    /\ mode \in Modes
    /\ now = 0
    /\ exists = [u \in UserIds |-> FALSE]
    /\ sessions = [u \in UserIds |-> <<>>]
    /\ store = [u \in UserIds |-> [c \in ContainerNames |-> AbsentFile]]
    /\ issued = {}
    /\ userCount = 0
    /\ nextId = 0
    /\ last = NoReq
    /\ resp = NoResp

\* The user ids that uuidv4 has produced so far
Known == {UserNames[i] : i \in 1..userCount}

\* res.status(...).json(...)
Reply(route, a, c, t, id, fields, h) ==
    /\ resp' = [status |-> h.status, error |-> h.error, detail |-> h.detail,
                body |-> h.body, names |-> {}]
    /\ last' = [route |-> route, via |-> a.via, user |-> a.userId, role |-> a.role,
                c |-> c, t |-> t, id |-> id, fields |-> fields, cred |-> a.req]

\* A request to a container route: a is what app.use(authenticate) decided and,
\* when it let the request through, h is the handler's result; then
\* Storage.writeContainer when the handler writes.
ContainerRequest(route, a, c, t, id, fields, h) ==
    /\ IF a.ok
       THEN /\ store' = IF h.write THEN writeContainer(store, a.userId, c, h.data)
                        ELSE store
            /\ exists' = IF h.write /\ mode = "local"
                         THEN [exists EXCEPT ![a.userId] = TRUE] ELSE exists
            /\ Reply(route, a, c, t, id, fields, h)
       ELSE /\ UNCHANGED <<store, exists>>
            /\ Reply(route, a, c, t, id, fields, Answer(a.status, a.error, <<>>))
    /\ UNCHANGED <<mode, now, sessions, issued, userCount, valVars, concVars, aliasVars, loginVars, urlVars>>

RecordCount(u, c, t) ==
    LET rd == readContainer(store, u, c) IN
    IF rd.found /\ HasTable(rd.data, t) THEN Len(TableOf(rd.data, t).records) ELSE 0

\* The table that the request would append to holds fewer than cap records
Room(req, c, t, cap) ==
    LET a == authenticate(req, now) IN a.ok => RecordCount(a.userId, c, t) < cap

\* Fewer than cap sessions are stored for userId and fewer than cap tokens signed
LoginRoom(userId, cap) == Len(sessions[userId]) < cap /\ Cardinality(issued) < cap

\* uuidv4() for a record
NewRecordId == IF nextId < Len(RecIds) THEN RecIds[nextId + 1] ELSE "spare"

\* POST /:container/:table
CreateRecord(req, c, t, body) ==
    LET a == authenticate(req, now)
        made == a.ok /\ postRecord(readContainer(store, a.userId, c), t, body, a.role,
                                   NewRecordId).body # <<>>
    IN
    /\ "id" \in DOMAIN body.fields \/ nextId < MaxIds
    /\ ContainerRequest("create", a, c, t, "", body.fields,
           postRecord(readContainer(store, a.userId, c), t, body, a.role, NewRecordId))
    /\ nextId' = IF made /\ "id" \notin DOMAIN body.fields THEN nextId + 1 ELSE nextId

\* GET /:container/:table
ListRecords(req, c, t) ==
    LET a == authenticate(req, now) IN
    /\ ContainerRequest("list", a, c, t, "", EmptyObj,
           getRecords(readContainer(store, a.userId, c), t))
    /\ UNCHANGED nextId

\* GET /:container/:table/:id
ReadRecord(req, c, t, id) ==
    LET a == authenticate(req, now) IN
    /\ ContainerRequest("read", a, c, t, id, EmptyObj,
           getRecord(readContainer(store, a.userId, c), t, id))
    /\ UNCHANGED nextId

\* PUT /:container/:table/:id
ReplaceRecord(req, c, t, id, fields) ==
    LET a == authenticate(req, now) IN
    /\ ContainerRequest("put", a, c, t, id, fields,
           putRecord(readContainer(store, a.userId, c), t, id, fields, a.role))
    /\ UNCHANGED nextId

\* PATCH /:container/:table/:id
UpdateRecord(req, c, t, id, fields) ==
    LET a == authenticate(req, now) IN
    /\ ContainerRequest("patch", a, c, t, id, fields,
           patchRecord(readContainer(store, a.userId, c), t, id, fields, a.role))
    /\ UNCHANGED nextId

\* DELETE /:container/:table/:id
DeleteRecord(req, c, t, id) ==
    LET a == authenticate(req, now) IN
    /\ ContainerRequest("delete", a, c, t, id, EmptyObj,
           deleteRecord(readContainer(store, a.userId, c), t, id, a.role))
    /\ UNCHANGED nextId

\* DELETE /:container/:table
DeleteTable(req, c, t) ==
    LET a == authenticate(req, now) IN
    /\ ContainerRequest("deleteTable", a, c, t, "", EmptyObj,
           deleteTable(readContainer(store, a.userId, c), t))
    /\ UNCHANGED nextId

\* PATCH /:container/:table/rename
RenameTable(req, c, t, newName) ==
    LET a == authenticate(req, now) IN
    /\ ContainerRequest("rename", a, c, t, newName, EmptyObj,
           renameTable(readContainer(store, a.userId, c), t, newName))
    /\ UNCHANGED nextId

\* PATCH /:container/:table/schema
BulkSchema(req, c, t, tr) ==
    LET a == authenticate(req, now) IN
    /\ ContainerRequest("schema", a, c, t, "", tr.set,
           bulkSchema(readContainer(store, a.userId, c), t, tr))
    /\ UNCHANGED nextId

\* PATCH /:container/:table/schema-definition
SchemaDefinition(req, c, t, sd) ==
    LET a == authenticate(req, now) IN
    /\ ContainerRequest("schemaDefinition", a, c, t, sd.name, EmptyObj,
           schemaDefinition(readContainer(store, a.userId, c), t, sd, a.role))
    /\ UNCHANGED nextId

\* GET /containers
ListContainers(req) ==
    LET a == authenticate(req, now) IN
    /\ last' = [NoReq EXCEPT !.route = "containers", !.via = a.via, !.cred = a.req, !.user = a.userId,
                             !.role = a.role]
    /\ resp' = IF a.ok THEN [NoResp EXCEPT !.status = 200,
                                           !.names = listContainers(store, a.userId)]
               ELSE [NoResp EXCEPT !.status = a.status, !.error = a.error]
    /\ UNCHANGED <<mode, now, exists, sessions, store, issued, userCount, nextId, valVars, concVars, aliasVars, loginVars, urlVars>>

\* DELETE /containers/:name
DeleteContainer(req, c) ==
    LET a == authenticate(req, now) IN
    /\ last' = [NoReq EXCEPT !.route = "deleteContainer", !.via = a.via, !.cred = a.req, !.user = a.userId,
                             !.role = a.role, !.c = c]
    /\ IF a.ok
       THEN /\ store' = deleteContainer(store, a.userId, c)
            /\ resp' = [NoResp EXCEPT !.status = 204]
       ELSE /\ UNCHANGED store
            /\ resp' = [NoResp EXCEPT !.status = a.status, !.error = a.error]
    /\ UNCHANGED <<mode, now, exists, sessions, issued, userCount, nextId, valVars, concVars, aliasVars, loginVars, urlVars>>

\* POST /auth/register
Register ==
    /\ userCount < Len(UserNames)
    /\ LET userId == UserNames[userCount + 1] IN
       /\ exists' = [exists EXCEPT ![userId] = TRUE]
       /\ sessions' = [sessions EXCEPT ![userId] = <<>>]
       /\ last' = [NoReq EXCEPT !.route = "register", !.user = userId]
    /\ userCount' = userCount + 1
    /\ resp' = [NoResp EXCEPT !.status = 201]
    /\ UNCHANGED <<mode, now, store, issued, nextId, valVars, concVars, aliasVars, loginVars, urlVars>>

\* Storage.saveUserSession
saveUserSession(ss, userId, sessionData) ==
    [ss EXCEPT ![userId] = Append(@, sessionData)]

\* POST /auth/login with header x-user-id: userId and body { role, expiresIn }
Login(userId, requestedRole, expiresIn) ==
    LET role == IF requestedRole = "admin" THEN "admin" ELSE "viewer"
        token == JwtSign(userId, role, expiresIn, now)
        sessionData == [token |-> token, expires_at |-> now + expiresIn, role |-> role]
    IN
    /\ sessions' = saveUserSession(sessions, userId, sessionData)
    /\ exists' = [exists EXCEPT ![userId] = TRUE]
    /\ issued' = issued \cup {token}
    /\ last' = [NoReq EXCEPT !.route = "login", !.user = userId, !.role = role]
    /\ resp' = [NoResp EXCEPT !.status = 200]
    /\ UNCHANGED <<mode, now, store, userCount, nextId, valVars, concVars, aliasVars, loginVars, urlVars>>

\* The clock advances
Tick ==
    /\ now + TickMs <= MaxTicks * TickMs
    /\ now' = now + TickMs
    /\ UNCHANGED <<mode, exists, sessions, store, issued, userCount, nextId, last, resp,
                   valVars, concVars, aliasVars, loginVars, urlVars>>

\* Storage.deleteUser
deleteUser(userId) ==
    /\ store' = deleteUserStore(store, userId)
    /\ sessions' = [sessions EXCEPT ![userId] = <<>>]
    /\ exists' = [exists EXCEPT ![userId] = FALSE]

\* DELETE /auth/account
DeleteAccount(req) ==
    LET a == authenticate(req, now) IN
    /\ last' = [NoReq EXCEPT !.route = "deleteAccount", !.via = a.via, !.cred = a.req, !.user = a.userId,
                             !.role = a.role]
    /\ IF a.ok
       THEN /\ deleteUser(a.userId)
            /\ resp' = [NoResp EXCEPT !.status = 204]
       ELSE /\ UNCHANGED <<store, sessions, exists>>
            /\ resp' = [NoResp EXCEPT !.status = a.status, !.error = a.error]
    /\ UNCHANGED <<mode, now, issued, userCount, nextId, valVars, concVars, aliasVars, loginVars, urlVars>>

\* DELETE /admin/users/:id
AdminDeleteUser(req, id) ==
    LET a == authenticate(req, now) IN
    /\ last' = [NoReq EXCEPT !.route = "adminDeleteUser", !.via = a.via, !.cred = a.req, !.user = a.userId,
                             !.role = a.role, !.id = id]
    /\ IF a.ok /\ a.role = "admin"
       THEN /\ deleteUser(id)
            /\ resp' = [NoResp EXCEPT !.status = 204]
       ELSE /\ UNCHANGED <<store, sessions, exists>>
            /\ resp' = IF a.ok THEN [NoResp EXCEPT !.status = 403, !.error = "Forbidden"]
                       ELSE [NoResp EXCEPT !.status = a.status, !.error = a.error]
    /\ UNCHANGED <<mode, now, issued, userCount, nextId, valVars, concVars, aliasVars, loginVars, urlVars>>

HourMs == 3600000

\* PATCH /auth/update-uuid: Storage.updateUserId moves the directory (local,
\* it throws when the source is missing) or re-keys the documents (mongodb);
\* then a token for the new id is signed and its session saved.
UpdateUuid(req) ==
    LET a == authenticate(req, now)
        newUserId == UserNames[userCount + 1]
        token == JwtSign(newUserId, a.role, HourMs, now)
        moved == [store EXCEPT ![newUserId] = store[a.userId],
                               ![a.userId] = [c \in ContainerNames |-> AbsentFile]]
        movedSessions == [sessions EXCEPT ![newUserId] = sessions[a.userId],
                                          ![a.userId] = <<>>]
    IN
    /\ userCount < Len(UserNames)
    /\ userCount' = IF a.ok THEN userCount + 1 ELSE userCount
    /\ last' = [NoReq EXCEPT !.route = "updateUuid", !.via = a.via, !.cred = a.req, !.user = a.userId,
                             !.role = a.role]
    /\ IF ~a.ok
       THEN /\ resp' = [NoResp EXCEPT !.status = a.status, !.error = a.error]
            /\ UNCHANGED <<store, sessions, exists, issued>>
       ELSE IF mode = "local" /\ ~exists[a.userId]
       THEN /\ resp' = [NoResp EXCEPT !.status = 500, !.error = "Failed to update UUID"]
            /\ UNCHANGED <<store, sessions, exists, issued>>
       ELSE /\ store' = moved
            /\ sessions' = saveUserSession(movedSessions, newUserId,
                               [token |-> token, expires_at |-> now + HourMs,
                                role |-> a.role])
            /\ exists' = [exists EXCEPT ![a.userId] = FALSE, ![newUserId] = TRUE]
            /\ issued' = issued \cup {token}
            /\ resp' = [NoResp EXCEPT !.status = 200]
    /\ UNCHANGED <<mode, now, nextId, valVars, concVars, aliasVars, loginVars, urlVars>>

\* The validation-only variables at rest
ValIdle ==
    /\ vPayload = EmptyObj
    /\ vSchema = <<>>
    /\ vResult = NoError
    /\ vPc = "idle"

\* No request is being handled
Slots == {1, 2}
NoFlight ==
    [pc |-> "idle", route |-> "none", via |-> "none", cred |-> NoCred, user |-> NoHeader,
     role |-> "", c |-> "", t |-> "", id |-> "", fields |-> EmptyObj,
     h |-> Answer(0, "", <<>>), before |-> AbsentFile]
ConcIdle ==
    /\ flight = [s \in Slots |-> NoFlight]
    /\ deleted = [id \in {RecIds[i] : i \in 1..Len(RecIds)} |-> 0]
    /\ answered = 0
    /\ acks = {}

\* No custom path has been taken off a table
AliasIdle == removed = {}

\* No login is being handled
NoSession == [token |-> NoToken, expires_at |-> 0, role |-> ""]
NoLogin == [pc |-> "idle", userId |-> NoHeader, sessionData |-> NoSession, read |-> <<>>]
LoginIdle == pending = [s \in Slots |-> NoLogin]

\* No request has reached the routes
NoUrl == [method |-> "", url |-> <<>>, routed |-> <<>>]
UrlIdle == seen = NoUrl

\* The server at rest (the state after startup, in local mode)
SrvIdle == SrvInit /\ mode = "local" /\ ConcIdle /\ AliasIdle /\ LoginIdle /\ UrlIdle

\* ---------------------------------------------------------------------
\* Request inputs
\* ---------------------------------------------------------------------
TableNames == {"t", "t2"}

\* Requests as a caller can send them: with the API key, or with a token the
\* server has signed (or none)
ApiKeyCredentials ==
    {[uid |-> u, apiKey |-> u, token |-> NoToken, carrier |-> "none"] : u \in Known}
TokenCredentials ==
    {[uid |-> u, apiKey |-> NoHeader, token |-> tk,
      carrier |-> IF tk = NoToken THEN "none" ELSE "authorization"] :
        u \in Known, tk \in issued \cup {NoToken}}
Credentials == ApiKeyCredentials \cup TokenCredentials

\* The record ids that uuidv4 has produced so far
KnownIds == {RecIds[i] : i \in 1..nextId}

PlainBody(fields) ==
    [fields |-> fields, hasSchema |-> FALSE, schema |-> <<>>, customPaths |-> EmptyObj]
Age(v) == [k \in {"age"} |-> v]

Transform(rename, remove, set) == [rename |-> rename, remove |-> remove, set |-> set]
AddColumn(name, type) == [name |-> name, type |-> type, remove |-> ""]

\* ---------------------------------------------------------------------
\* Specification Spec: the callers of one workspace, with sessions of both
\* roles and the API key, sending sequential requests to the record, table and
\* container routes and deleting the account. Sessions have the default
\* lifetime of one hour and the clock stands still.
\* ---------------------------------------------------------------------
AuthRecords == 1    \* records per table
AuthSessions == 1   \* sessions per user, and tokens signed

Init == SrvInit /\ ValIdle /\ ConcIdle /\ AliasIdle /\ LoginIdle /\ UrlIdle

Next ==
    \/ userCount < OneUser /\ Register
    \/ \E u \in Known, r \in Roles : LoginRoom(u, AuthSessions) /\ Login(u, r, HourMs)
    \/ \E req \in Credentials :
           Room(req, "c", "t", AuthRecords) /\ CreateRecord(req, "c", "t", PlainBody(Age(Num("1"))))
    \/ \E req \in Credentials : ListRecords(req, "c", "t")
    \/ \E req \in Credentials, id \in KnownIds : ReadRecord(req, "c", "t", id)
    \/ \E req \in Credentials, id \in KnownIds :
           ReplaceRecord(req, "c", "t", id, Age(Num("2")))
    \/ \E req \in Credentials, id \in KnownIds :
           UpdateRecord(req, "c", "t", id, Age(Num("2")))
    \/ \E req \in Credentials, id \in KnownIds : DeleteRecord(req, "c", "t", id)
    \/ \E req \in Credentials, t \in TableNames : DeleteTable(req, "c", t)
    \/ \E req \in Credentials : RenameTable(req, "c", "t", "t2")
    \/ \E req \in Credentials :
           BulkSchema(req, "c", "t", Transform(<<>>, {}, Age(Num("2"))))
    \/ \E req \in Credentials :
           SchemaDefinition(req, "c", "t", AddColumn("age", "Number"))
    \/ \E req \in Credentials : ListContainers(req)
    \/ \E req \in Credentials : DeleteContainer(req, "c")
    \/ \E req \in Credentials : DeleteAccount(req)

Spec == Init /\ [][Next]_vars

\* ---------------------------------------------------------------------
\* Specification SpecIdentity: the callers of two workspaces, with API keys and
\* sessions, sending sequential requests to the account routes and to a few
\* container routes.
\* ---------------------------------------------------------------------
NextIdentity ==
    \/ userCount < MaxUsers /\ Register
    \/ \E u \in Known, r \in Roles : LoginRoom(u, AuthSessions) /\ Login(u, r, HourMs)
    \/ \E req \in Credentials :
           Room(req, "c", "t", AuthRecords) /\ CreateRecord(req, "c", "t", PlainBody(Age(Num("1"))))
    \/ \E req \in Credentials : ListRecords(req, "c", "t")
    \/ \E req \in Credentials : DeleteContainer(req, "c")
    \/ \E req \in Credentials :
           userCount < MaxUsers + 1 /\ Cardinality(issued) < AuthSessions + 1 /\ UpdateUuid(req)
    \/ \E req \in Credentials : DeleteAccount(req)
    \/ \E req \in Credentials, id \in Known : AdminDeleteUser(req, id)

SpecIdentity == Init /\ [][NextIdentity]_vars

\* ---------------------------------------------------------------------
\* Specification of the validation engine alone: the arguments are drawn
\* from bounded sets and the function is applied once.
\* ---------------------------------------------------------------------
MaxSchemaLen == 2

ValKeys == {"age", "name"}
ValValues == {Str("abc"), Str("2024-01-01"), Num("1"), Bool("true"), Null}

ValPayloads == UNION {[D -> ValValues] : D \in SUBSET ValKeys}

ValEntries == [key : ValKeys, type : SchemaTypes]

\* Sequences of entries with pairwise distinct keys (the keys of an object).
ValSchemas ==
    UNION {{s \in [1..n -> ValEntries] :
                \A i, j \in 1..n : i # j => s[i].key # s[j].key}
           : n \in 0..MaxSchemaLen}

ValInit ==
    /\ SrvIdle
    /\ vPayload \in ValPayloads
    /\ vSchema \in ValSchemas
    /\ vResult = NoError
    /\ vPc = "init"

Validate ==
    /\ vPc = "init"
    /\ vResult' = validateAgainstSchema(vPayload, vSchema)
    /\ vPc' = "done"
    /\ UNCHANGED <<vPayload, vSchema, srvVars, concVars, aliasVars, loginVars, urlVars>>

SpecValidate == ValInit /\ [][Validate]_vars

\* ---------------------------------------------------------------------
\* C1
\* ---------------------------------------------------------------------
MutatingRoutes ==
    {"create", "put", "patch", "delete", "deleteTable", "rename", "schema",
     "schemaDefinition", "deleteContainer", "updateUuid", "deleteAccount"}
ReadingRoutes == {"list", "read", "containers"}

\* The step is a request that authenticate resolved from a viewer session
ViewerRequest == last'.via = "token" /\ last'.role = "viewer"

\* C1: every POST, PUT, PATCH or DELETE request authenticated by a viewer
\* session is answered 403 and changes no stored state, on every route; a GET
\* by a viewer session is never answered 403.
C1_ViewerNeverMutates ==
    [][ViewerRequest =>
          /\ last'.route \in MutatingRoutes =>
                 resp'.status = 403 /\ UNCHANGED <<store, sessions, exists>>
          /\ last'.route \in ReadingRoutes => resp'.status # 403]_vars

\* ---------------------------------------------------------------------
\* C2
\* ---------------------------------------------------------------------
\* What is stored for workspace u: its containers, its session list and
\* whether its directory / user document is there
Workspace(st, ss, ex, u) == [containers |-> st[u], sessions |-> ss[u], present |-> ex[u]]

\* C2: a request whose resolved identity is workspace A leaves what is stored
\* for every other workspace B as it was.
C2_WorkspacesIsolated ==
    [][\A b \in Known :
          b # last'.user =>
              Workspace(store', sessions', exists', b) = Workspace(store, sessions, exists, b)]_vars

\* ---------------------------------------------------------------------
\* Specification SpecExpiry: the clock advances; logins ask for short
\* lifetimes; the callers of two workspaces present API keys, tokens with an
\* x-user-id header (their own or another workspace's) and tokens alone.
\* ---------------------------------------------------------------------
ExpirySessions == 1     \* sessions per user, and tokens signed
ExpiresIns == {100, 1500}

BearerCredentials ==
    {[uid |-> NoHeader, apiKey |-> NoHeader, token |-> tk, carrier |-> "authorization"] :
        tk \in issued}

NextExpiry ==
    \/ userCount < MaxUsers /\ Register
    \/ \E u \in Known, r \in Roles, e \in ExpiresIns :
           LoginRoom(u, ExpirySessions) /\ Login(u, r, e)
    \/ Tick
    \/ \E req \in Credentials \cup BearerCredentials :
           Room(req, "c", "t", AuthRecords) /\ CreateRecord(req, "c", "t", PlainBody(Age(Num("1"))))
    \/ \E req \in Credentials \cup BearerCredentials : ListRecords(req, "c", "t")
    \/ \E req \in Credentials \cup BearerCredentials : DeleteAccount(req)

SpecExpiry == Init /\ [][NextExpiry]_vars

\* ---------------------------------------------------------------------
\* C3
\* ---------------------------------------------------------------------
\* A request that names workspace u in x-user-id and presents token tk
TokenRequest(u, tk) ==
    [uid |-> u, apiKey |-> NoHeader, token |-> tk, carrier |-> "authorization"]

\* A session with token tk is stored for workspace u and has not reached its
\* expires_at
LiveSession(u, tk) ==
    \E i \in 1..Len(sessions[u]) :
        sessions[u][i].token = tk /\ now < sessions[u][i].expires_at

\* C3: a token presented with the identity of a workspace other than the one
\* it was issued to is rejected with 401; validation succeeds iff a session
\* with that token is stored for the named workspace and now < expiresAt.
C3_TokenValidIffLiveSession ==
    \A tk \in issued, u \in Known :
        LET a == authenticate(TokenRequest(u, tk), now) IN
        /\ u # tk.userId => ~a.ok /\ a.status = 401
        /\ a.ok <=> LiveSession(u, tk)

\* ---------------------------------------------------------------------
\* C4
\* ---------------------------------------------------------------------
\* Token tk, presented for the workspace it was issued to, is rejected
Rejected(tk) == ~authenticate(TokenRequest(tk.userId, tk), now).ok

\* C4: a token issued by login is accepted at every time before its
\* expires_at; after expires_at it is rejected with 401 and error
\* token_expired; once rejected for expiry it is never accepted again.
C4_AcceptedUntilExpiresAt ==
    /\ [](\A u \in Known : \A i \in 1..Len(sessions[u]) :
            LET s == sessions[u][i]
                a == authenticate(TokenRequest(u, s.token), now)
            IN  /\ now < s.expires_at => a.ok
                /\ now > s.expires_at =>
                       ~a.ok /\ a.status = 401 /\ a.error = "token_expired")
    /\ [][\A tk \in issued : Rejected(tk) => Rejected(tk)']_vars

\* ---------------------------------------------------------------------
\* Specification SpecData: the owner of one workspace, with the API key,
\* sending sequential requests whose bodies carry wrong-typed values, an id
\* of their own and a schema.
\* ---------------------------------------------------------------------
DataRecords == 2    \* records per table

AgeSchema == <<[key |-> "age", type |-> "Number"]>>
SchemaBody(schema) ==
    [fields |-> EmptyObj, hasSchema |-> TRUE, schema |-> schema, customPaths |-> EmptyObj]
WithId(v) == [k \in {"id"} |-> v]

DataBodies ==
    {PlainBody(Age(Num("1"))), PlainBody(Age(Str("x"))),
     PlainBody(Merge(WithId(Str("u1")), Age(Num("3")))), PlainBody(WithId(Num("7"))),
     SchemaBody(AgeSchema)}
DataFields == {Age(Num("2")), Age(Str("x")), WithId(Str("u2"))}
DataTransforms ==
    {Transform(<<>>, {}, Age(Str("x"))), Transform(<<>>, {}, WithId(Str("u1"))),
     Transform(<<[o |-> "age", n |-> "id"]>>, {}, EmptyObj)}
\* The ids a URL names: those uuidv4 produced and those the bodies carry
DataIds == KnownIds \cup {"u2", "7"}

NextData ==
    \/ userCount < OneUser /\ Register
    \/ \E req \in ApiKeyCredentials, body \in DataBodies :
           Room(req, "c", "t", DataRecords) /\ CreateRecord(req, "c", "t", body)
    \/ \E req \in ApiKeyCredentials, id \in DataIds : ReadRecord(req, "c", "t", id)
    \/ \E req \in ApiKeyCredentials, id \in DataIds, fields \in DataFields :
           ReplaceRecord(req, "c", "t", id, fields)
    \/ \E req \in ApiKeyCredentials, id \in DataIds, fields \in DataFields :
           UpdateRecord(req, "c", "t", id, fields)
    \/ \E req \in ApiKeyCredentials, id \in DataIds : DeleteRecord(req, "c", "t", id)
    \/ \E req \in ApiKeyCredentials, tr \in DataTransforms : BulkSchema(req, "c", "t", tr)
    \/ \E req \in ApiKeyCredentials :
           SchemaDefinition(req, "c", "t", AddColumn("age", "Number"))

SpecData == Init /\ [][NextData]_vars

\* ---------------------------------------------------------------------
\* C6
\* ---------------------------------------------------------------------
\* The tables stored in container c of workspace u
StoredTables(u, c) ==
    LET rd == readContainer(store, u, c) IN
    IF rd.found THEN {rd.data[i].tbl : i \in 1..Len(rd.data)} ELSE {}

\* C6: in every reachable state no two records of a table have the same
\* primary-key value (the field id).
C6_PrimaryKeyUnique ==
    \A u \in Known, c \in ContainerNames : \A tbl \in StoredTables(u, c) :
        \A i, j \in 1..Len(tbl.records) :
            ("id" \in DOMAIN tbl.records[i] /\ "id" \in DOMAIN tbl.records[j]
               /\ tbl.records[i]["id"] = tbl.records[j]["id"]) => i = j

\* ---------------------------------------------------------------------
\* C7
\* ---------------------------------------------------------------------
\* The step is a create that answered 201 with a record
Created == last'.route = "create" /\ resp'.status = 201 /\ resp'.body # <<>>

\* C7: when create answers 201 with record R, a read-one by R's primary-key
\* value right after answers 200 with a body equal to R, and R is the
\* payload's fields plus the primary-key field.
C7_CreateThenRead ==
    [][Created =>
          LET R == resp'.body[1]
              P == last'.fields
              g == getRecord(readContainer(store', last'.user, last'.c), last'.t,
                             ToStringJS(R["id"]))
          IN  /\ g.status = 200 /\ g.body = <<R>>
              /\ DOMAIN R = DOMAIN P \cup {"id"}
              /\ \A k \in DOMAIN P : R[k] = P[k]]_vars

\* ---------------------------------------------------------------------
\* C10
\* ---------------------------------------------------------------------
\* Every record of the table passes the validation of the table's schema
AllValid(tbl) ==
    \A i \in 1..Len(tbl.records) : ~validateAgainstSchema(tbl.records[i], tbl.schema).err

RecordRoutes == {"create", "put", "patch", "schema"}

\* C10: a create, PUT, PATCH or bulk schema transform on a Structured table
\* whose schema stays the same and whose records all conform to it leaves
\* every stored record conforming to it.
C10_MutationsKeepSchema ==
    [][\A u \in Known, c \in ContainerNames, t \in TableNames :
          LET rd == readContainer(store, u, c)
              rd2 == readContainer(store', u, c)
          IN  (/\ last'.route \in RecordRoutes
               /\ rd.found /\ HasTable(rd.data, t) /\ TableOf(rd.data, t).structured
               /\ rd2.found /\ HasTable(rd2.data, t) /\ TableOf(rd2.data, t).structured
               /\ TableOf(rd2.data, t).schema = TableOf(rd.data, t).schema
               /\ AllValid(TableOf(rd.data, t)))
              => AllValid(TableOf(rd2.data, t))]_vars

\* ---------------------------------------------------------------------
\* Overlapping requests. A handler is an async function: it runs up to
\* `await Storage.readContainer`, continues with what was read, and, when it
\* writes, answers after `await Storage.writeContainer`. Other handlers run
\* while it awaits.
\* ---------------------------------------------------------------------
ConcRoutes == {"read", "delete", "patch"}

\* The handler of the route, from the point where readContainer has returned rd
Handle(f, rd) ==
    CASE f.route = "read" -> getRecord(rd, f.t, f.id)
      [] f.route = "delete" -> deleteRecord(rd, f.t, f.id, f.role)
      [] f.route = "patch" -> patchRecord(rd, f.t, f.id, f.fields, f.role)
      [] f.route = "create" -> postRecord(rd, f.t, PlainBody(f.fields), f.role, NewRecordId)

\* res.status(...).json(...) of the request in flight f with handler result h
Respond(f, h) ==
    /\ resp' = [status |-> h.status, error |-> h.error, detail |-> h.detail,
                body |-> h.body, names |-> {}]
    /\ last' = [route |-> f.route, via |-> f.via, user |-> f.user, role |-> f.role,
                c |-> f.c, t |-> f.t, id |-> f.id, fields |-> f.fields, cred |-> f.cred]
    /\ answered' = answered + 1
    /\ deleted' = IF f.route = "delete" /\ h.status = 204
                  THEN [deleted EXCEPT ![f.id] = @ + 1] ELSE deleted
    /\ acks' = IF h.write
               THEN acks \cup {[route |-> f.route, user |-> f.user, c |-> f.c, t |-> f.t,
                                status |-> h.status, body |-> h.body]}
               ELSE acks

\* The request arrives on connection s; authenticate lets it through
Begin(s, req, route, c, t, id, fields) ==
    LET a == authenticate(req, now) IN
    /\ flight[s].pc = "idle"
    /\ a.ok
    /\ flight' = [flight EXCEPT ![s] =
                     [NoFlight EXCEPT !.pc = "read", !.route = route, !.via = a.via,
                                      !.cred = a.req, !.user = a.userId,
                                      !.role = a.role, !.c = c, !.t = t, !.id = id,
                                      !.fields = fields]]
    /\ UNCHANGED <<srvVars, valVars, deleted, answered, acks, aliasVars, loginVars, urlVars>>

\* Storage.readContainer returns and the handler runs to its next await, or
\* to its answer when it does not write
ReadStep(s) ==
    LET f == flight[s]
        h == Handle(f, readContainer(store, f.user, f.c))
    IN
    /\ f.pc = "read"
    /\ IF h.write
       THEN /\ flight' = [flight EXCEPT ![s] = [f EXCEPT !.pc = "write", !.h = h]]
            /\ UNCHANGED <<last, resp, deleted, answered, acks>>
       ELSE /\ flight' = [flight EXCEPT ![s] = NoFlight]
            /\ Respond(f, h)
    /\ nextId' = IF f.route = "create" /\ h.body # <<>> THEN nextId + 1 ELSE nextId
    /\ UNCHANGED <<mode, now, exists, sessions, store, issued, userCount, valVars, aliasVars, loginVars, urlVars>>

\* Another connection is in the middle of fs.writeFile on the same file
OtherWriter(s) ==
    \E s2 \in Slots \ {s} :
        /\ flight[s2].pc = "writing"
        /\ flight[s2].user = flight[s].user /\ flight[s2].c = flight[s].c

\* Storage.writeContainer, local mode, first part: fsExtra.ensureDir, then
\* fs.writeFile opens the file with flag 'w', which truncates it
WriteOpen(s) ==
    LET f == flight[s] IN
    /\ f.pc = "write"
    /\ mode = "local"
    /\ flight' = [flight EXCEPT ![s] = [f EXCEPT !.pc = "writing",
                                                 !.before = store[f.user][f.c]]]
    /\ store' = [store EXCEPT ![f.user][f.c] = TornFile]
    /\ exists' = [exists EXCEPT ![f.user] = TRUE]
    /\ UNCHANGED <<mode, now, sessions, issued, userCount, nextId, last, resp, valVars,
                   deleted, answered, acks, aliasVars, loginVars, urlVars>>

\* Storage.writeContainer, local mode, second part: the bytes are written and
\* the handler answers. When another fs.writeFile is open on the same file the
\* two writes share it and the file holds this content or a mix of both.
WriteClose(s) ==
    LET f == flight[s] IN
    /\ f.pc = "writing"
    /\ \/ store' = [store EXCEPT ![f.user][f.c] = OkFile(f.h.data)]
       \/ OtherWriter(s) /\ store' = [store EXCEPT ![f.user][f.c] = TornFile]
    /\ flight' = [flight EXCEPT ![s] = NoFlight]
    /\ Respond(f, f.h)
    /\ UNCHANGED <<mode, now, exists, sessions, issued, userCount, nextId, valVars, aliasVars, loginVars, urlVars>>

\* Storage.writeContainer, mongodb mode: one updateOne with upsert
WriteDocument(s) ==
    LET f == flight[s] IN
    /\ f.pc = "write"
    /\ mode = "mongodb"
    /\ store' = writeContainer(store, f.user, f.c, f.h.data)
    /\ flight' = [flight EXCEPT ![s] = NoFlight]
    /\ Respond(f, f.h)
    /\ UNCHANGED <<mode, now, exists, sessions, issued, userCount, nextId, valVars, aliasVars, loginVars, urlVars>>

\* ---------------------------------------------------------------------
\* Specification SpecConc: the owner of one workspace creates a record and
\* then sends requests on it over two connections at once.
\* ---------------------------------------------------------------------
MaxAnswered == 3    \* overlapping requests answered
ConcIds == 2        \* record ids produced by uuidv4, overlapping creates included

\* The creates in flight that have not yet drawn their id
CreatesWaiting ==
    Cardinality({s \in Slots : flight[s].route = "create" /\ flight[s].pc = "read"})

NextConc ==
    \/ userCount < OneUser /\ Register
    \/ \E req \in ApiKeyCredentials :
           Room(req, "c", "t", AuthRecords) /\ CreateRecord(req, "c", "t", PlainBody(Age(Num("1"))))
    \/ \E s \in Slots, req \in ApiKeyCredentials, route \in ConcRoutes, id \in KnownIds :
           answered < MaxAnswered /\ Begin(s, req, route, "c", "t", id, Age(Num("2")))
    \/ \E s \in Slots, req \in ApiKeyCredentials, t \in TableNames :
           /\ answered < MaxAnswered /\ nextId + CreatesWaiting < ConcIds
           /\ Begin(s, req, "create", "c", t, "", Age(Num("1")))
    \/ \E s \in Slots : ReadStep(s)
    \/ \E s \in Slots : WriteOpen(s)
    \/ \E s \in Slots : WriteClose(s)
    \/ \E s \in Slots : WriteDocument(s)

SpecConc == Init /\ [][NextConc]_vars

\* ---------------------------------------------------------------------
\* C5
\* ---------------------------------------------------------------------
\* The contents that writeContainer calls in progress on the file of (u, c)
\* are storing
BeingWritten(u, c) ==
    {OkFile(flight[s].h.data) :
        s \in {x \in Slots : flight[x].pc = "writing" /\ flight[x].user = u /\ flight[x].c = c}}

\* C5: while a writeContainer is in progress on (workspace, container), what a
\* readContainer finds there is the complete content from before the write or
\* the complete new content, in both storage modes.
C5_WriteContainerAtomic ==
    \A s \in Slots :
        flight[s].pc = "writing" =>
            store[flight[s].user][flight[s].c]
                \in {flight[s].before} \cup BeingWritten(flight[s].user, flight[s].c)

\* ---------------------------------------------------------------------
\* C8
\* ---------------------------------------------------------------------
\* The step answers an overlapping request
Responded == answered' = answered + 1

\* C8: at most one DELETE on a record's primary key is answered 204; every
\* other DELETE on that key is answered 404, and after the 204 every read-one
\* of that key is answered 404.
C8_DeleteSucceedsOnce ==
    [][Responded =>
          /\ (last'.route = "delete" /\ resp'.status = 204) => deleted[last'.id] = 0
          /\ (last'.route \in {"delete", "read"} /\ deleted[last'.id] > 0) =>
                 resp'.status = 404]_vars

\* ---------------------------------------------------------------------
\* Specification SpecAuth: requests with every combination of x-user-id
\* header, x-api-key header and token (none, forged, signed for either
\* workspace, born expired or good for an hour) to routes behind authenticate.
\* ---------------------------------------------------------------------
AuthLifetimes == {100, HourMs}

AuthRequests ==
    {[uid |-> u, apiKey |-> k, token |-> tk,
      carrier |-> IF tk = NoToken THEN "none" ELSE "authorization"] :
        u \in Known \cup {NoHeader}, k \in Known \cup {NoHeader},
        tk \in issued \cup {NoToken, ForgedToken}}

NextAuth ==
    \/ userCount < MaxUsers /\ Register
    \/ \E u \in Known, r \in Roles, e \in AuthLifetimes :
           LoginRoom(u, AuthSessions) /\ Login(u, r, e)
    \/ \E req \in AuthRequests :
           Room(req, "c", "t", AuthRecords) /\ CreateRecord(req, "c", "t", PlainBody(Age(Num("1"))))
    \/ \E req \in AuthRequests : ListRecords(req, "c", "t")
    \/ \E req \in AuthRequests : DeleteContainer(req, "c")

SpecAuth == Init /\ [][NextAuth]_vars

\* The step answers a request to a route behind authenticate
ProtectedRequest == last'.route \notin {"none", "register", "login"}

\* ---------------------------------------------------------------------
\* C13
\* ---------------------------------------------------------------------
\* C13: a request to a route behind authenticate that carries no x-user-id
\* header is answered 401 and changes nothing, whatever token or API key it
\* carries.
C13_NoIdentityHeaderRejected ==
    [][(ProtectedRequest /\ last'.cred.uid = NoHeader) =>
          resp'.status = 401 /\ UNCHANGED <<store, sessions, exists, nextId>>]_vars

\* ---------------------------------------------------------------------
\* C14
\* ---------------------------------------------------------------------
\* The token was signed by the server for workspace u and has not expired
Validates(tk, u, t) == tk.sig = "server" /\ tk.userId = u /\ t \div 1000 < tk.exp

\* The request names a workspace and carries neither that workspace's API key
\* nor a token that validates for it
NoValidCredential(req, t) ==
    /\ req.uid # NoHeader
    /\ req.apiKey # req.uid
    /\ req.token = NoToken \/ ~Validates(req.token, req.uid, t)

C15_ApiKeyFirst ==
    [][(ProtectedRequest /\ last'.cred.uid # NoHeader /\ last'.cred.apiKey = last'.cred.uid) =>
          /\ last'.via = "apikey" /\ last'.role = "admin" /\ last'.user = last'.cred.uid
          /\ resp'.status \notin {401, 403}]_vars

\* A create with the API key and an expired viewer token of another workspace
\* was answered 201
C15_Witness ==
    /\ last.route = "create" /\ resp.status = 201 /\ last.via = "apikey"
    /\ last.cred.apiKey = last.cred.uid
    /\ last.cred.token \in issued /\ last.cred.token.role = "viewer"
    /\ ~JwtVerify(last.cred.token, now) /\ last.cred.token.userId # last.cred.uid

\* ---------------------------------------------------------------------
\* C17
\* ---------------------------------------------------------------------
\* The records of the table that the request of the step addresses, in the
\* store st
RecordsAt(st, req) == TableOf(readContainer(st, req.user, req.c).data, req.t).records

\* Nothing but position idx differs between the record lists
OnlyChangedAt(old, new, idx) ==
    /\ Len(new) = Len(old)
    /\ \A i \in 1..Len(old) : i # idx => new[i] = old[i]

\* C17: a PUT of body B on the record with primary key K that is answered 200
\* stores, at the same position, a record whose primary key is still K, also
\* when B carries another value for it, and whose other fields are exactly
\* those of B.
C17_PutKeepsKey ==
    [][(last'.route = "put" /\ resp'.status = 200) =>
          LET old == RecordsAt(store, last')
              new == RecordsAt(store', last')
              idx == FindIndex(old, last'.id)
              B == last'.fields
          IN  /\ OnlyChangedAt(old, new, idx)
              /\ new[idx]["id"] = Str(last'.id)
              /\ DOMAIN new[idx] = DOMAIN B \cup {"id"}
              /\ \A k \in DOMAIN B \ {"id"} : new[idx][k] = B[k]]_vars

\* ---------------------------------------------------------------------
\* C18
\* ---------------------------------------------------------------------
\* C18: a PATCH of body B on the record with primary key K that is answered
\* 200 leaves at its position the old record with B's fields merged over it:
\* fields not in B keep their value, fields in B take B's value, the primary
\* key stays K also when B carries another one, and no other record changes.
C18_PatchMerges ==
    [][(last'.route = "patch" /\ resp'.status = 200) =>
          LET old == RecordsAt(store, last')
              new == RecordsAt(store', last')
              idx == FindIndex(old, last'.id)
              B == last'.fields
          IN  /\ OnlyChangedAt(old, new, idx)
              /\ new[idx]["id"] = Str(last'.id)
              /\ DOMAIN new[idx] = DOMAIN old[idx] \cup DOMAIN B
              /\ \A k \in DOMAIN B \ {"id"} : new[idx][k] = B[k]
              /\ \A k \in DOMAIN old[idx] \ DOMAIN B : new[idx][k] = old[idx][k]
              /\ resp'.body = <<new[idx]>>]_vars

\* A PATCH whose body carries another id was answered 200 with a record that
\* kept its id and its age, next to a second record
C18_Witness ==
    /\ last.route = "patch" /\ resp.status = 200
    /\ "id" \in DOMAIN last.fields /\ last.fields["id"] # Str(last.id)
    /\ resp.body[1]["id"] = Str(last.id)
    /\ "age" \in DOMAIN resp.body[1]
    /\ Len(RecordsAt(store, last)) = 2

\* ---------------------------------------------------------------------
\* Specification SpecShape: the owner of one workspace initializes tables
\* with _init, creates and replaces records with a null id, and removes or
\* renames the id field of every record with a bulk transform.
\* ---------------------------------------------------------------------
\* { _init: true } alone, with _customPaths, with _schema, with both
InitFlag == [k \in {"_init"} |-> Bool("true")]
ItemsAlias == [m \in {"get"} |-> <<"items">>]
InitBodies ==
    {[fields |-> InitFlag, hasSchema |-> hs, schema |-> IF hs THEN AgeSchema ELSE <<>>,
      customPaths |-> cp] : hs \in BOOLEAN, cp \in {EmptyObj, ItemsAlias}}

ShapeBodies == {PlainBody(Age(Num("1"))), PlainBody(WithId(Null))} \cup InitBodies
ShapeTransforms ==
    {Transform(<<>>, {"id"}, EmptyObj), Transform(<<[o |-> "id", n |-> "key"]>>, {}, EmptyObj)}

NextShape ==
    \/ userCount < OneUser /\ Register
    \/ \E req \in ApiKeyCredentials, body \in ShapeBodies :
           Room(req, "c", "t", DataRecords) /\ CreateRecord(req, "c", "t", body)
    \/ \E req \in ApiKeyCredentials, id \in KnownIds :
           ReplaceRecord(req, "c", "t", id, WithId(Null))
    \/ \E req \in ApiKeyCredentials, tr \in ShapeTransforms : BulkSchema(req, "c", "t", tr)
    \/ \E req \in ApiKeyCredentials : ListRecords(req, "c", "t")
    \/ \E req \in ApiKeyCredentials : DeleteTable(req, "c", "t")

SpecShape == Init /\ [][NextShape]_vars

\* ---------------------------------------------------------------------
\* C19
\* ---------------------------------------------------------------------
\* C19: in every reachable state every stored record has the primary-key
\* field id with a non-null value.
C19_PrimaryKeyPopulated ==
    \A u \in Known, c \in ContainerNames : \A tbl \in StoredTables(u, c) :
        \A i \in 1..Len(tbl.records) :
            "id" \in DOMAIN tbl.records[i] /\ tbl.records[i]["id"] # Null

\* ---------------------------------------------------------------------
\* C20
\* ---------------------------------------------------------------------
\* Container c of workspace u holds table t
TableExists(st, u, c, t) ==
    LET rd == readContainer(st, u, c) IN rd.found /\ HasTable(rd.data, t)

\* C20: a POST whose body has _init true (alone or with _schema and / or
\* _customPaths) on a table that does not exist creates the table with that
\* schema and alias map and no records and answers 201 without a record; on a
\* table that exists it answers 400 and changes nothing.
C20_InitCreatesEmptyTable ==
    [][\A req \in ApiKeyCredentials, body \in InitBodies :
          CreateRecord(req, "c", "t", body) =>
              IF TableExists(store, req.uid, "c", "t")
              THEN resp'.status = 400 /\ UNCHANGED store
              ELSE /\ resp'.status = 201 /\ resp'.body = <<>>
                   /\ TableExists(store', req.uid, "c", "t")
                   /\ TableOf(readContainer(store', req.uid, "c").data, "t")
                          = StructuredTable(body.schema, body.customPaths, <<>>)]_vars

\* ---------------------------------------------------------------------
\* C16
\* ---------------------------------------------------------------------
\* The acknowledged create a is in the stored container
InStore(a) ==
    LET rd == readContainer(store, a.user, a.c) IN
    /\ rd.found /\ HasTable(rd.data, a.t)
    /\ \E i \in 1..Len(TableOf(rd.data, a.t).records) :
           <<TableOf(rd.data, a.t).records[i]>> = a.body

\* C16: a mutating request writes back the whole container as it computed it
\* from its own read, whatever other requests wrote in between, so that two
\* overlapping mutations on one container can both be acknowledged while the
\* stored container has the effect of the last writer only.
C16_LastWriteWins ==
    [][\A s \in Slots :
           (flight[s].pc \in {"write", "writing"} /\ flight'[s].pc = "idle") =>
               /\ acks' = acks \cup {[route |-> flight[s].route, user |-> flight[s].user,
                                      c |-> flight[s].c, t |-> flight[s].t,
                                      status |-> flight[s].h.status,
                                      body |-> flight[s].h.body]}
               /\ flight[s].h.status \in {200, 201, 204}
               /\ \/ store'[flight[s].user][flight[s].c] = OkFile(flight[s].h.data)
                  \/ /\ OtherWriter(s)
                     /\ store'[flight[s].user][flight[s].c] = TornFile]_vars

\* Two overlapping creates on two tables of one container were both answered
\* 201, no request is in flight, and the container holds the record of one only
C16_Witness ==
    /\ \A s \in Slots : flight[s].pc = "idle"
    /\ answered = 2
    /\ \E a1, a2 \in acks :
           /\ a1.route = "create" /\ a2.route = "create"
           /\ a1.status = 201 /\ a2.status = 201
           /\ a1.user = a2.user /\ a1.c = a2.c /\ a1.t # a2.t
           /\ ~InStore(a1) /\ InStore(a2)
           /\ store[a1.user][a1.c].st = "ok"

\* ---------------------------------------------------------------------
\* Request routing: the custom path resolver (the first app.use after the body
\* parsers), then app.use(authenticate), then the first route whose method and
\* pattern match the path the resolver left in req.url. A path is the sequence
\* of its segments; a request is [method, path, cred, body, op], cred being the
\* headers that identify the caller, body the JSON body of a POST and op the
\* body of a PATCH to custom-paths, rename, schema or schema-definition.
\* ---------------------------------------------------------------------
pathsToSkip ==
    {"introspect", "auth", "containers", "admin", "dev-admin", "crud-example",
     "favicon.ico", "index.html", "app.js", "style.css", "assets", "public",
     "reg.log", "docs"}

\* pathsToSkip.some(p => req.path.startsWith(p)); no segment used here merely
\* begins with one of these words
Skipped(path) == path # <<>> /\ path[1] \in pathsToSkip

\* The resolver's own identification: x-user-id, else the userId of a token
\* that verifies, taken from the Authorization header or the auth_token cookie
ResolverUserId(cred, t) ==
    IF cred.uid # NoHeader THEN cred.uid
    ELSE IF /\ cred.token # NoToken
            /\ cred.carrier \in {"authorization", "cookie"}
            /\ JwtVerify(cred.token, t)
    THEN cred.token.userId
    ELSE NoHeader

\* A targetUrl that would leave out what follows the custom path
TargetUrlBare(c, name, customPath, path) ==
    IF Len(path) >= Len(customPath) /\ SubSeq(path, 1, Len(customPath)) = customPath
    THEN <<c, name>>
    ELSE <<>>

\* targetUrl for one table: /container/table when the path is the custom path,
\* /container/table/<rest> when it starts with the custom path and a slash,
\* and <<>> (null) otherwise
TargetUrl(c, name, customPath, path) ==
    IF path = customPath THEN <<c, name>>
    ELSE IF Len(path) > Len(customPath) /\ SubSeq(path, 1, Len(customPath)) = customPath
    THEN <<c, name>> \o SubSeq(path, Len(customPath) + 1, Len(path))
    ELSE <<>>

\* The tables of a container, in the order of Object.entries, that are
\* structured, have a custom path for the method, and give a targetUrl
Matching(c, data, method, path) ==
    {i \in 1..Len(data) :
        /\ data[i].tbl.structured
        /\ method \in DOMAIN data[i].tbl.customPaths
        /\ TargetUrl(c, data[i].name, data[i].tbl.customPaths[method], path) # <<>>}

\* The first targetUrl found in a container if the scan of its tables ran
\* from the last table to the first
ResolveInLast(c, rd, method, path) ==
    IF ~rd.found \/ Matching(c, rd.data, method, path) = {} THEN <<>>
    ELSE LET i == CHOOSE k \in Matching(c, rd.data, method, path) :
                      \A j \in Matching(c, rd.data, method, path) : k >= j
         IN TargetUrl(c, rd.data[i].name, rd.data[i].tbl.customPaths[method], path)

\* The first targetUrl found in a container, or <<>>
ResolveIn(c, rd, method, path) ==
    IF ~rd.found \/ Matching(c, rd.data, method, path) = {} THEN <<>>
    ELSE LET i == CHOOSE k \in Matching(c, rd.data, method, path) :
                      \A j \in Matching(c, rd.data, method, path) : k <= j
         IN TargetUrl(c, rd.data[i].name, rd.data[i].tbl.customPaths[method], path)

\* The order in which Storage.listContainers returns the containers of a
\* workspace (fs.readdir, or find().toArray())
ScanOrder == <<"c", "c2">>
ScanIndex(c) == CHOOSE i \in 1..Len(ScanOrder) : ScanOrder[i] = c

\* The first of the containers cs in the order of the for loop
FirstScanned(cs) == CHOOSE c \in cs : \A d \in cs : ScanIndex(c) <= ScanIndex(d)

\* A resolver that would look the path up in custom paths it remembers from
\* earlier requests before it scans the stored tables
customPathResolverStale(st, req, t) ==
    LET userId == ResolverUserId(req.cred, t)
        stale == {r \in removed : /\ r.user = userId /\ r.method = req.method
                                  /\ TargetUrl(r.c, r.t, r.path, req.path) # <<>>}
    IN
    IF Skipped(req.path) \/ userId = NoHeader \/ userId \notin DOMAIN st THEN req.path
    ELSE IF stale # {}
    THEN LET r == CHOOSE x \in stale : TRUE IN TargetUrl(r.c, r.t, r.path, req.path)
    ELSE LET hits == {c \in listContainers(st, userId) :
                         ResolveIn(c, readContainer(st, userId, c), req.method, req.path) # <<>>}
         IN IF hits = {} THEN req.path
            ELSE LET c == FirstScanned(hits)
                 IN ResolveIn(c, readContainer(st, userId, c), req.method, req.path)

\* The custom path resolver: the path that the routes see
customPathResolver(st, req, t) ==
    LET userId == ResolverUserId(req.cred, t) IN
    IF Skipped(req.path) \/ userId = NoHeader \/ userId \notin DOMAIN st THEN req.path
    ELSE LET hits == {c \in listContainers(st, userId) :
                         ResolveIn(c, readContainer(st, userId, c), req.method, req.path) # <<>>}
         IN IF hits = {} THEN req.path
            ELSE LET c == FirstScanned(hits)
                 IN ResolveIn(c, readContainer(st, userId, c), req.method, req.path)

\* The route that answers a method and path: the first app.METHOD whose
\* pattern matches. The table routes rename, schema and schema-definition
\* come before /:container/:table/:id, and so does custom-paths.
RouteOf(method, path) ==
    CASE method = "get" /\ Len(path) = 2 -> "list"
      [] method = "get" /\ Len(path) = 3 -> "read"
      [] method = "post" /\ Len(path) = 2 -> "create"
      [] method = "put" /\ Len(path) = 3 -> "put"
      [] method = "delete" /\ Len(path) = 2 -> "deleteTable"
      [] method = "delete" /\ Len(path) = 3 -> "delete"
      [] method = "patch" /\ Len(path) = 3 /\ path[3] = "custom-paths" -> "customPaths"
      [] method = "patch" /\ Len(path) = 3 /\ path[3] = "rename" -> "rename"
      [] method = "patch" /\ Len(path) = 3 /\ path[3] = "schema" -> "schema"
      [] method = "patch" /\ Len(path) = 3 /\ path[3] = "schema-definition"
            -> "schemaDefinition"
      [] method = "patch" /\ Len(path) = 3 -> "patch"
      [] OTHER -> "unrouted"

Segment(path, i) == IF i <= Len(path) THEN path[i] ELSE ""

\* PATCH /:container/:table/custom-paths: an admin puts a custom path on a
\* table ({method, path}) or takes one off ({remove: method}); a bare table
\* becomes structured with its records as they were.
patchCustomPaths(rd, t, op, role) ==
    IF role # "admin" THEN Forbidden
    ELSE IF ~rd.found \/ ~HasTable(rd.data, t) THEN Answer(404, "Table not found", <<>>)
    ELSE LET tbl == TableOf(rd.data, t)
             customPaths == IF op.remove # "" THEN Without(tbl.customPaths, {op.remove})
                            ELSE Merge(tbl.customPaths, [m \in {op.method} |-> op.path])
         IN AnswerWrite(200, <<>>,
                SetTable(rd.data, t, [tbl EXCEPT !.structured = TRUE,
                                                 !.customPaths = customPaths]))

\* What the route answers for the path the resolver left, read from rd
Dispatch(rd, route, path, req, role, newId) ==
    CASE route = "list" -> getRecords(rd, path[2])
      [] route = "read" -> getRecord(rd, path[2], path[3])
      [] route = "create" -> postRecord(rd, path[2], req.body, role, newId)
      [] route = "put" -> putRecord(rd, path[2], path[3], req.body.fields, role)
      [] route = "deleteTable" -> deleteTable(rd, path[2])
      [] route = "delete" -> deleteRecord(rd, path[2], path[3], role)
      [] route = "patch" -> patchRecord(rd, path[2], path[3], req.body.fields, role)
      [] route = "customPaths" -> patchCustomPaths(rd, path[2], req.op, role)
      [] route = "rename" -> renameTable(rd, path[2], req.op.newName)
      [] route = "schema" -> bulkSchema(rd, path[2], req.op)
      [] route = "schemaDefinition" -> schemaDefinition(rd, path[2], req.op, role)
      [] OTHER -> Answer(404, "Cannot route", <<>>)

\* The answer to a request in the store st at time t, and the store after it
Outcome(st, req, t, newId) ==
    LET path == customPathResolver(st, req, t)
        a == authenticate(req.cred, t)
        route == RouteOf(req.method, path)
        h == IF a.ok
             THEN Dispatch(readContainer(st, a.userId, Segment(path, 1)), route, path, req,
                           a.role, newId)
             ELSE Answer(a.status, a.error, <<>>)
    IN [a |-> a, route |-> route, path |-> path, h |-> h,
        store |-> IF a.ok /\ h.write
                  THEN writeContainer(st, a.userId, Segment(path, 1), h.data) ELSE st]

\* The custom paths taken off and not put back, after the answered request
Removed(o, req) ==
    IF o.a.ok /\ o.route = "deleteTable" /\ o.h.write
    THEN {r \in removed : ~(r.user = o.a.userId /\ r.c = o.path[1] /\ r.t = o.path[2])}
    ELSE IF o.a.ok /\ o.route = "customPaths" /\ o.h.write
    THEN LET m == IF req.op.remove # "" THEN req.op.remove ELSE req.op.method
             rest == {r \in removed : ~(r.user = o.a.userId /\ r.c = o.path[1]
                                         /\ r.t = o.path[2] /\ r.method = m)}
             tbl == TableOf(readContainer(store, o.a.userId, o.path[1]).data, o.path[2])
         IN IF req.op.remove # "" /\ m \in DOMAIN tbl.customPaths
            THEN rest \cup {[user |-> o.a.userId, c |-> o.path[1], t |-> o.path[2],
                             method |-> m, path |-> tbl.customPaths[m]]}
            ELSE rest
    ELSE removed

\* One request, from the resolver to the answer
Answered(req) ==
    \E o \in {Outcome(store, req, now, NewRecordId)} :
    /\ store' = o.store
    /\ exists' = IF o.a.ok /\ o.h.write /\ mode = "local"
                 THEN [exists EXCEPT ![o.a.userId] = TRUE] ELSE exists
    /\ Reply(o.route, o.a, Segment(o.path, 1), Segment(o.path, 2), Segment(o.path, 3),
             req.body.fields, o.h)
    /\ nextId' = IF o.a.ok /\ o.route = "create" /\ o.h.write /\ o.h.body # <<>>
                    /\ "id" \notin DOMAIN req.body.fields
                 THEN nextId + 1 ELSE nextId
    /\ removed' = Removed(o, req)
    /\ UNCHANGED <<mode, now, sessions, issued, userCount, valVars, concVars, loginVars>>

Serve(req) == Answered(req) /\ UNCHANGED urlVars

\* ---------------------------------------------------------------------
\* Specification SpecAlias: the callers of one workspace give two tables
\* custom paths, at creation and through custom-paths, take them off again,
\* and send requests to the custom paths and to the canonical paths, with the
\* token of a session beside x-user-id, with the token alone in the
\* Authorization header or in the csrf-token header, and with no credentials.
\* ---------------------------------------------------------------------
AliasIds == 1       \* record ids produced by uuidv4
AliasSessions == 1  \* sessions per user, and tokens signed

ListAlias == <<"api", "v1", "items">>
NewAlias == <<"c", "new">>
AliasMap == [m \in {"get", "post"} |-> IF m = "get" THEN ListAlias ELSE NewAlias]

AliasInit ==
    [fields |-> InitFlag, hasSchema |-> FALSE, schema |-> <<>>, customPaths |-> AliasMap]

\* The body of PATCH .../custom-paths: {method, path} or {remove}
Op(method, path, remove) == [method |-> method, path |-> path, remove |-> remove]
NoOp == Op("", <<>>, "")

AliasCredentials ==
    {[uid |-> u, apiKey |-> NoHeader, token |-> tk, carrier |-> "authorization"] :
        u \in Known, tk \in issued}
    \cup {[uid |-> NoHeader, apiKey |-> NoHeader, token |-> tk, carrier |-> k] :
             tk \in issued, k \in {"authorization", "csrf"}}
    \cup {NoCred}

Request(method, path, cred, body, op) ==
    [method |-> method, path |-> path, cred |-> cred, body |-> body, op |-> op]

\* Requests on the canonical paths
CanonicalRequests ==
    {Request("post", <<"c", t>>, cred, body, NoOp) :
        t \in TableNames, cred \in AliasCredentials,
        body \in {AliasInit, PlainBody(Age(Num("1")))}}
    \cup {Request("get", <<"c", "t">>, cred, PlainBody(EmptyObj), NoOp) :
             cred \in AliasCredentials}

\* Requests on the custom paths
AliasRequests ==
    {Request("get", ListAlias, cred, PlainBody(EmptyObj), NoOp) : cred \in AliasCredentials}
    \cup {Request("get", ListAlias \o <<id>>, cred, PlainBody(EmptyObj), NoOp) :
             id \in KnownIds, cred \in AliasCredentials}
    \cup {Request("post", NewAlias, cred, PlainBody(Age(Num("1"))), NoOp) :
             cred \in AliasCredentials}

\* Requests that put a custom path on table t or take one off
CustomPathsRequests ==
    {Request("patch", <<"c", "t", "custom-paths">>, cred, PlainBody(EmptyObj), op) :
        cred \in AliasCredentials,
        op \in {Op("", <<>>, "get"), Op("", <<>>, "post"), Op("get", ListAlias, "")}}

\* uuidv4 has an id left for the record that the request may create
IdLeft(req) == req.method = "post" /\ req.body # AliasInit => nextId < AliasIds

NextAlias ==
    \/ userCount < OneUser /\ Register
    \/ \E u \in Known, r \in Roles : LoginRoom(u, AliasSessions) /\ Login(u, r, HourMs)
    \/ \E req \in CanonicalRequests : IdLeft(req) /\ Serve(req)
    \/ \E req \in AliasRequests : IdLeft(req) /\ Serve(req)
    \/ \E req \in CustomPathsRequests : Serve(req)

\* The server starts with the file backend, its default
InitAlias == Init /\ mode = "local"

SpecAlias == InitAlias /\ [][NextAlias]_vars

\* ---------------------------------------------------------------------
\* C11
\* ---------------------------------------------------------------------
\* The workspace that the headers of a request name, if any
Claimed(cred) ==
    IF cred.uid # NoHeader THEN cred.uid
    ELSE IF cred.token # NoToken THEN cred.token.userId
    ELSE NoHeader

\* The canonical paths of the tables of workspace u for which req is a request
\* on the custom path of its method, or on that custom path and an id
CanonicalPaths(u, req) ==
    UNION {LET rd == readContainer(store, u, c) IN
           IF ~rd.found THEN {}
           ELSE {TargetUrl(c, rd.data[i].name, rd.data[i].tbl.customPaths[req.method],
                           req.path) :
                    i \in {k \in 1..Len(rd.data) :
                              /\ rd.data[k].tbl.structured
                              /\ req.method \in DOMAIN rd.data[k].tbl.customPaths}} \ {<<>>}
           : c \in ContainerNames}

\* C11: for a table with custom path A for method M, the request M A (and
\* M A/<id>) of any caller in any stored state is answered with the same
\* status and body, leaves the same stored state and gets the same decision of
\* authenticate and of the role check as the request M /container/table (and
\* M /container/table/<id>) of that caller.
C11_AliasEquivalent ==
    [][\A req \in AliasRequests, u \in Known :
           (Claimed(req.cred) \in {u, NoHeader} /\ last'.cred = req.cred /\ Serve(req)) =>
               \A path \in CanonicalPaths(u, req) :
                   \E o \in {Outcome(store, [req EXCEPT !.path = path], now, NewRecordId)} :
                       /\ resp'.status = o.h.status
                       /\ resp'.error = o.h.error
                       /\ resp'.body = o.h.body
                       /\ store' = o.store
                       /\ last'.role = o.a.role]_vars

\* ---------------------------------------------------------------------
\* C12
\* ---------------------------------------------------------------------
\* The step answers req, a request on the custom path that r says was taken
\* off, whose headers do not name another workspace than that of r
OnRemoved(req, r) ==
    /\ r \in removed
    /\ req.method = r.method
    /\ TargetUrl(r.c, r.t, r.path, req.path) # <<>>
    /\ ResolverUserId(req.cred, now) \in {r.user, NoHeader}
    /\ last'.cred = req.cred

\* The table of r in the store st
RemovedFrom(st, r) == TableOf(readContainer(st, r.user, r.c).data, r.t)

\* The step takes a custom path off a table through custom-paths
Removal(req) ==
    /\ req.op.remove # ""
    /\ last'.route = "customPaths" /\ resp'.status = 200
    /\ last'.cred = req.cred
    /\ Serve(req)

\* What the canonical GET of table t of container c answers to cred in store st
CanonicalList(st, cred, c, t) ==
    Outcome(st, Request("get", <<c, t>>, cred, PlainBody(EmptyObj), NoOp), now, NewRecordId).h

Faults == {"none", "users", "containers", "fs", "session"}

\* The faults that the storage mode m can produce
FaultsOf(m) ==
    IF m = "mongodb" THEN {"none", "users", "containers", "session"}
    ELSE {"none", "fs", "session"}

\* An async route handler without try/catch whose awaited call rejects: the
\* promise that the handler returned rejects.  Express 4 ignores that promise
\* and nothing is sent (status 0); Express 5 passes the rejection to the
\* default error handler, which sends 500.  No error-handling middleware is
\* registered.
Unhandled == {0, 500}

\* A container route whose handler may write, with the outcome of the write
\* (the data routes call Storage.writeContainer outside any try)
ContainerRequestFault(route, a, c, t, id, fields, h, fault) ==
    IF a.ok /\ h.write /\ fault # "none"
    THEN /\ \E s \in Unhandled :
                Reply(route, a, c, t, id, fields, Answer(s, "", <<>>))
         /\ UNCHANGED <<store, exists>>
         /\ UNCHANGED <<mode, now, sessions, issued, userCount, valVars, concVars, aliasVars, loginVars, urlVars>>
    ELSE ContainerRequest(route, a, c, t, id, fields, h)

\* POST /:container/:table
CreateRecordFault(req, c, t, body, fault) ==
    LET a == authenticate(req, now)
        h == postRecord(readContainer(store, a.userId, c), t, body, a.role, NewRecordId)
        made == a.ok /\ h.body # <<>>
    IN
    /\ fault \in FaultsOf(mode) \ {"users", "session"}
    /\ "id" \in DOMAIN body.fields \/ nextId < MaxIds
    /\ ContainerRequestFault("create", a, c, t, "", body.fields, h, fault)
    /\ nextId' = IF made /\ "id" \notin DOMAIN body.fields THEN nextId + 1 ELSE nextId

\* PATCH /:container/:table/:id
UpdateRecordFault(req, c, t, id, fields, fault) ==
    LET a == authenticate(req, now) IN
    /\ fault \in FaultsOf(mode) \ {"users", "session"}
    /\ ContainerRequestFault("patch", a, c, t, id, fields,
           patchRecord(readContainer(store, a.userId, c), t, id, fields, a.role), fault)
    /\ UNCHANGED nextId

\* DELETE /containers/:name: try { await Storage.deleteContainer } catch → 404;
\* in local mode Storage.deleteContainer itself swallows the rejection of
\* fs.unlink (.catch(() => { })).
DeleteContainerFault(req, c, fault) ==
    LET a == authenticate(req, now) IN
    /\ fault \in FaultsOf(mode) \ {"users", "session"}
    /\ IF a.ok /\ fault # "none"
       THEN /\ last' = [NoReq EXCEPT !.route = "deleteContainer", !.via = a.via,
                                     !.cred = a.req, !.user = a.userId,
                                     !.role = a.role, !.c = c]
            /\ resp' = IF mode = "local" THEN [NoResp EXCEPT !.status = 204]
                       ELSE [NoResp EXCEPT !.status = 404, !.error = "Container not found"]
            /\ UNCHANGED <<store, mode, now, exists, sessions, issued, userCount, nextId,
                           valVars, concVars, aliasVars, loginVars, urlVars>>
       ELSE DeleteContainer(req, c)

\* DELETE /auth/account: try { await Storage.deleteUser } catch → 500.
\* mongodb: users.deleteOne, then containers.deleteMany; local:
\* fsExtra.remove(...).catch(() => { }), so a rejection is swallowed.
DeleteAccountFault(req, fault) ==
    LET a == authenticate(req, now) IN
    /\ fault \in FaultsOf(mode) \ {"session"}
    /\ IF a.ok /\ fault # "none"
       THEN /\ last' = [NoReq EXCEPT !.route = "deleteAccount", !.via = a.via,
                                     !.cred = a.req, !.user = a.userId, !.role = a.role]
            /\ resp' = IF mode = "local" THEN [NoResp EXCEPT !.status = 204]
                       ELSE [NoResp EXCEPT !.status = 500,
                                           !.error = "Failed to delete account"]
            /\ sessions' = IF fault = "containers"
                           THEN [sessions EXCEPT ![a.userId] = <<>>] ELSE sessions
            /\ UNCHANGED <<store, exists, mode, now, issued, userCount, nextId,
                           valVars, concVars, aliasVars, loginVars, urlVars>>
       ELSE DeleteAccount(req)

\* PATCH /auth/update-uuid: try { Storage.updateUserId; jwt.sign;
\* Storage.saveUserSession; res.json } catch → 500.  Storage.updateUserId is
\* users.updateOne then containers.updateMany (mongodb) or fsExtra.move
\* (local); what the calls before the rejected one did stays done.
UpdateUuidFault(req, fault) ==
    LET a == authenticate(req, now)
        newUserId == UserNames[userCount + 1]
        movedStore == [store EXCEPT ![newUserId] = store[a.userId],
                                    ![a.userId] = [c \in ContainerNames |-> AbsentFile]]
        movedSessions == [sessions EXCEPT ![newUserId] = sessions[a.userId],
                                          ![a.userId] = <<>>]
        missing == mode = "local" /\ ~exists[a.userId]
    IN
    /\ fault \in FaultsOf(mode)
    /\ userCount < Len(UserNames)
    /\ IF a.ok /\ fault # "none" /\ ~missing
       THEN /\ userCount' = userCount + 1
            /\ last' = [NoReq EXCEPT !.route = "updateUuid", !.via = a.via,
                                     !.cred = a.req, !.user = a.userId, !.role = a.role]
            /\ resp' = [NoResp EXCEPT !.status = 500, !.error = "Failed to update UUID"]
            /\ sessions' = IF fault \in {"containers", "session"}
                           THEN movedSessions ELSE sessions
            /\ store' = IF fault = "session" THEN movedStore ELSE store
            /\ exists' = IF fault = "session"
                         THEN [exists EXCEPT ![a.userId] = FALSE, ![newUserId] = TRUE]
                         ELSE exists
            /\ UNCHANGED <<issued, mode, now, nextId, valVars, concVars, aliasVars, loginVars, urlVars>>
       ELSE UpdateUuid(req)

\* ---------------------------------------------------------------------
\* Specification SpecFault: sequential requests to a workspace, in either
\* storage mode, where any storage call of a request may reject.
\* ---------------------------------------------------------------------
FaultUsers == 1      \* registrations
FaultSessions == 1   \* logins
FaultRecords == 1    \* records in the table

NextFault ==
    \/ userCount < FaultUsers /\ Register
    \/ \E u \in Known : LoginRoom(u, FaultSessions) /\ Login(u, "admin", HourMs)
    \/ \E req \in Credentials, f \in Faults :
           /\ Room(req, "c", "t", FaultRecords)
           /\ CreateRecordFault(req, "c", "t", PlainBody(Age(Num("1"))), f)
    \/ \E req \in Credentials, id \in KnownIds, f \in Faults :
           UpdateRecordFault(req, "c", "t", id, Age(Num("2")), f)
    \/ \E req \in Credentials, f \in Faults : DeleteContainerFault(req, "c", f)
    \/ \E req \in Credentials, f \in Faults : DeleteAccountFault(req, f)
    \/ \E req \in Credentials, f \in Faults :
           /\ userCount < FaultUsers + 1
           /\ Cardinality(issued) < FaultSessions + 1
           /\ UpdateUuidFault(req, f)

SpecFault == Init /\ [][NextFault]_vars

\* ---------------------------------------------------------------------
\* POST /auth/login handled on two connections at once.  The handler signs
\* the token and awaits Storage.saveUserSession, which in local mode awaits
\* getUserSessions (the read of sessions.json), pushes, and awaits
\* fs.writeFile of the whole list; in mongodb mode it is one updateOne with
\* $push.  Other handlers run between the awaits.
\* ---------------------------------------------------------------------
\* The handler up to the first await inside Storage.saveUserSession
LoginBegin(s, userId, requestedRole, expiresIn) ==
    LET role == IF requestedRole = "admin" THEN "admin" ELSE "viewer"
        token == JwtSign(userId, role, expiresIn, now)
    IN
    /\ pending[s].pc = "idle"
    /\ pending' = [pending EXCEPT ![s] =
           [pc |-> "read", userId |-> userId,
            sessionData |-> [token |-> token, expires_at |-> now + expiresIn,
                             role |-> role],
            read |-> <<>>]]
    /\ UNCHANGED <<srvVars, valVars, concVars, aliasVars, urlVars>>

\* const sessions = await this.getUserSessions(userId)   (local mode)
LoginReadSessions(s) ==
    /\ pending[s].pc = "read"
    /\ mode = "local"
    /\ pending' = [pending EXCEPT ![s].pc = "write", ![s].read = sessions[pending[s].userId]]
    /\ UNCHANGED <<srvVars, valVars, concVars, aliasVars, urlVars>>

\* What Storage.saveUserSession stores: the list it read with sessionData
\* pushed (local), or the stored list with sessionData pushed (mongodb)
savedSessions(ss, p) ==
    IF mode = "local" THEN [ss EXCEPT ![p.userId] = Append(p.read, p.sessionData)]
    ELSE saveUserSession(ss, p.userId, p.sessionData)

\* The write of Storage.saveUserSession, then res.json({ token, ... })
LoginStore(s) ==
    LET p == pending[s] IN
    /\ p.pc = IF mode = "local" THEN "write" ELSE "read"
    /\ sessions' = savedSessions(sessions, p)
    /\ exists' = [exists EXCEPT ![p.userId] = TRUE]
    /\ issued' = issued \cup {p.sessionData.token}
    /\ last' = [NoReq EXCEPT !.route = "login", !.user = p.userId,
                             !.role = p.sessionData.role]
    /\ resp' = [NoResp EXCEPT !.status = 200]
    /\ pending' = [pending EXCEPT ![s] = NoLogin]
    /\ UNCHANGED <<mode, now, store, userCount, nextId, valVars, concVars, aliasVars, urlVars>>

\* ---------------------------------------------------------------------
\* Specification SpecLogin: logins to a workspace on two connections, the
\* clock, and requests that present the tokens.
\* ---------------------------------------------------------------------
LoginSessions == 2       \* logins answered
LoginLifetimes == {1000, HourMs}

NextLogin ==
    \/ userCount < OneUser /\ Register
    \/ \E s \in Slots, u \in Known, r \in Roles, e \in LoginLifetimes :
           /\ Len(sessions[u]) < LoginSessions
           /\ Cardinality(issued) < LoginSessions
           /\ LoginBegin(s, u, r, e)
    \/ \E s \in Slots : LoginReadSessions(s)
    \/ \E s \in Slots : LoginStore(s)
    \/ Tick
    \/ \E req \in BearerCredentials : ListRecords(req, "c", "t")

SpecLogin == Init /\ [][NextLogin]_vars

\* ---------------------------------------------------------------------
\* C21  When DELETE /auth/account answers 204 for a workspace, in either
\* storage mode, the workspace has no container left (listContainers is
\* empty and readContainer finds none) and no session left, and the
\* containers and sessions of every other workspace are as they were.
\* ---------------------------------------------------------------------
C21_AccountDeleted ==
    [][(last'.route = "deleteAccount" /\ resp'.status = 204) =>
          LET W == last'.user IN
          /\ listContainers(store', W) = {}
          /\ \A name \in ContainerNames : ~readContainer(store', W, name).found
          /\ sessions'[W] = <<>>
          /\ \A u \in UserIds \ {W} :
                 store'[u] = store[u] /\ sessions'[u] = sessions[u]]_vars

\* ---------------------------------------------------------------------
\* C22  PATCH /auth/update-uuid is all-or-nothing: when it answers 500 the
\* containers and sessions are all still under the old identifier, exactly
\* as before; when it answers 200 the new identifier holds the containers
\* and the sessions that the old one had and the old identifier holds
\* nothing.
\* ---------------------------------------------------------------------
C22_RotationAllOrNothing ==
    [][last'.route = "updateUuid" =>
          LET old == last'.user IN
          /\ resp'.status = 500 => store' = store /\ sessions' = sessions
          /\ resp'.status = 200 =>
                 \E new \in UserIds \ {old} :
                     /\ store'[new] = store[old]
                     /\ Len(sessions'[new]) >= Len(sessions[old])
                     /\ SubSeq(sessions'[new], 1, Len(sessions[old])) = sessions[old]
                     /\ listContainers(store', old) = {}
                     /\ sessions'[old] = <<>>]_vars

\* The handler of the request passed authentication and called Storage to write
Wrote(req, h) == authenticate(req, now).ok /\ h.write

\* ---------------------------------------------------------------------
\* C23  A mutating request whose storage write rejects is answered 500: it
\* is neither answered with another status nor left without an answer
\* (status 0).  Stated for POST /:container/:table,
\* PATCH /:container/:table/:id and DELETE /containers/:name.
\* ---------------------------------------------------------------------
C23_WriteFailureAnswered500 ==
    [][\A req \in Credentials, f \in Faults \ {"none"} :
          LET u == authenticate(req, now).userId
              role == authenticate(req, now).role
              rd == IF authenticate(req, now).ok THEN readContainer(store, u, "c")
                    ELSE [found |-> FALSE, data |-> <<>>]
          IN
          /\ (/\ last'.route = "create"
              /\ Wrote(req, postRecord(rd, "t", PlainBody(Age(Num("1"))), role, NewRecordId))
              /\ CreateRecordFault(req, "c", "t", PlainBody(Age(Num("1"))), f))
                 => resp'.status = 500
          /\ \A id \in KnownIds :
                (/\ last'.route = "patch"
                 /\ Wrote(req, patchRecord(rd, "t", id, Age(Num("2")), role))
                 /\ UpdateRecordFault(req, "c", "t", id, Age(Num("2")), f))
                    => resp'.status = 500
          /\ (/\ last'.route = "deleteContainer"
              /\ authenticate(req, now).ok
              /\ DeleteContainerFault(req, "c", f))
                 => resp'.status = 500]_vars

\* ---------------------------------------------------------------------
\* C24  The session list of a workspace is append-only under logins, also
\* overlapping ones: a step never removes or replaces a stored session, and
\* every token that a login returned is in the list of its workspace with
\* its role and its expiry.
\* ---------------------------------------------------------------------
C24_SessionsAppendOnly ==
    [][/\ \A u \in UserIds :
              /\ Len(sessions'[u]) >= Len(sessions[u])
              /\ SubSeq(sessions'[u], 1, Len(sessions[u])) = sessions[u]
       /\ \A tk \in issued' :
              \E i \in DOMAIN sessions'[tk.userId] :
                  /\ sessions'[tk.userId][i].token = tk
                  /\ sessions'[tk.userId][i].role = tk.role
                  /\ sessions'[tk.userId][i].expires_at \div 1000 = tk.exp]_vars

\* ---------------------------------------------------------------------
\* GET /:container/:table with a query string
\* ---------------------------------------------------------------------
\* A query parameter: whether the URL has it and, if so, its characters
Absent == [given |-> FALSE, s |-> <<>>]
Param(s) == [given |-> TRUE, s |-> s]

Digits == <<"0", "1", "2", "3", "4", "5", "6", "7", "8", "9">>
IsDigit(ch) == \E d \in 1..10 : Digits[d] = ch
DigitValue(ch) == (CHOOSE d \in 1..10 : Digits[d] = ch) - 1

NaN == [nan |-> TRUE, n |-> 0]

\* The value of the longest prefix of digits of s, from position i on
RECURSIVE DigitsFrom(_, _, _, _)
DigitsFrom(s, i, acc, any) ==
    IF i <= Len(s) /\ IsDigit(s[i])
    THEN DigitsFrom(s, i + 1, acc * 10 + DigitValue(s[i]), TRUE)
    ELSE IF any THEN [nan |-> FALSE, n |-> acc] ELSE NaN

\* The first position of s from i on that holds no white space
RECURSIVE SkipSpace(_, _)
SkipSpace(s, i) == IF i <= Len(s) /\ s[i] = " " THEN SkipSpace(s, i + 1) ELSE i

\* parseInt(p, 10): undefined gives NaN; leading white space is skipped, a
\* sign is taken, then the digits up to the first other character; NaN when
\* there is no digit.
ParseInt(p) ==
    IF ~p.given THEN NaN
    ELSE LET i == SkipSpace(p.s, 1)
             signed == i <= Len(p.s) /\ p.s[i] \in {"-", "+"}
             r == DigitsFrom(p.s, IF signed THEN i + 1 ELSE i, 0, FALSE)
         IN  IF signed /\ p.s[i] = "-" /\ ~r.nan THEN [nan |-> FALSE, n |-> 0 - r.n]
             ELSE r

\* parseInt(p, 10) || d
OrDefault(r, d) == IF r.nan \/ r.n = 0 THEN d ELSE r.n

\* page || limit on the raw parameters: undefined and '' are falsy
Paging(query) == Len(query.page.s) > 0 \/ Len(query.limit.s) > 0

\* Array.prototype.slice(start, end): a negative index counts from the end
RelativeIndex(len, k) ==
    IF k < 0 THEN (IF len + k < 0 THEN 0 ELSE len + k)
    ELSE IF k > len THEN len ELSE k
Slice(seq, start, end) ==
    SubSeq(seq, RelativeIndex(Len(seq), start) + 1, RelativeIndex(Len(seq), end))

\* String(record[k]); a missing field is undefined
FieldString(record, k) ==
    IF k \in DOMAIN record THEN ToStringJS(record[k]) ELSE "undefined"

\* records.filter(record => Object.entries(filters).every(([k, v]) =>
\*     String(record[k]) === String(v)))
filterRecords(records, filters) ==
    SelectSeq(records,
              LAMBDA record : \A k \in DOMAIN filters :
                                  FieldString(record, k) = filters[k])

\* { page: pageNum, limit: limitNum, total: records.length,
\*   data: records.slice(start, end) }
paginate(records, pageNum, limitNum) ==
    LET start == (pageNum - 1) * limitNum
        end == start + limitNum
    IN [page |-> pageNum, limit |-> limitNum, total |-> Len(records),
        data |-> Slice(records, start, end)]

\* app.get('/:container/:table') with req.query = { page, limit, ...filters };
\* the paginated body is the one object, here the only element of body.
getRecordsQuery(rd, t, query) ==
    IF ~rd.found \/ ~HasTable(rd.data, t) THEN Answer(404, "Table not found", <<>>)
    ELSE LET records == filterRecords(getTableRecords(TableOf(rd.data, t)), query.filters)
         IN  IF Paging(query)
             THEN Answer(200, "", <<paginate(records,
                                             OrDefault(ParseInt(query.page), 1),
                                             OrDefault(ParseInt(query.limit), 10))>>)
             ELSE Answer(200, "", records)

\* GET /:container/:table?...
ListRecordsQuery(req, c, t, query) ==
    LET a == authenticate(req, now) IN
    /\ ContainerRequest("list", a, c, t, "", EmptyObj,
           getRecordsQuery(readContainer(store, a.userId, c), t, query))
    /\ UNCHANGED nextId

\* ---------------------------------------------------------------------
\* Specification SpecList: a workspace whose table fills with records of
\* different ages, and list requests with filters, page and limit.
\* ---------------------------------------------------------------------
ListRecordsMax == 3    \* records in the table
ListIds == 3           \* record ids produced by uuidv4

ListBodies == {PlainBody(Age(Num("1"))), PlainBody(Age(Str("x"))), PlainBody(EmptyObj)}
ListParams ==
    {Absent, Param(<<>>), Param(<<"1">>), Param(<<"2">>), Param(<<"0">>),
     Param(<<"-", "1">>), Param(<<"x">>)}
ListFilters ==
    {EmptyObj, [k \in {"age"} |-> "1"], [k \in {"age"} |-> "undefined"],
     [k \in {"age", "id"} |-> IF k = "age" THEN "1" ELSE "u1"]}
ListQueries == [page : ListParams, limit : ListParams, filters : ListFilters]

NextList ==
    \/ userCount < OneUser /\ Register
    \/ \E req \in ApiKeyCredentials, body \in ListBodies :
           /\ Room(req, "c", "t", ListRecordsMax)
           /\ nextId < ListIds
           /\ ContainerRequest("create", authenticate(req, now), "c", "t", "", body.fields,
                  postRecord(readContainer(store, authenticate(req, now).userId, "c"),
                             "t", body, authenticate(req, now).role, NewRecordId))
           /\ nextId' = nextId + 1
    \/ \E req \in ApiKeyCredentials, id \in KnownIds : DeleteRecord(req, "c", "t", id)
    \/ \E req \in ApiKeyCredentials, query \in ListQueries :
           ListRecordsQuery(req, "c", "t", query)

InitList == Init /\ mode = "local"

SpecList == InitList /\ [][NextList]_vars

\* ---------------------------------------------------------------------
\* C25  GET /:container/:table answers, in stored order, exactly the records
\* whose fields equal every filter (page and limit are not filters).
\* Without page and limit the body is that list; with page or limit in the
\* query the body is {page, limit, total, data} where total is the number
\* of filtered records and data the filtered records at positions
\* (page-1)*limit up to page*limit (exclusive), so that the data of pages
\* 1 .. ceil(total/limit) concatenated are the filtered list.
\* ---------------------------------------------------------------------
\* The records of seq at the positions from (counted from 0) up to, not
\* including, to
Positions(seq, from, to) ==
    SubSeq(seq, (IF from < 0 THEN 0 ELSE from) + 1, IF to > Len(seq) THEN Len(seq) ELSE to)

PageCount(total, limit) == IF limit > 0 THEN (total + limit - 1) \div limit ELSE 0

RECURSIVE PagesUpTo(_, _, _)
PagesUpTo(records, limit, n) ==
    IF n = 0 THEN <<>>
    ELSE PagesUpTo(records, limit, n - 1) \o paginate(records, n, limit).data

\* The stored records that satisfy every filter, in stored order
Matches(u, c, t, filters) ==
    LET all == TableOf(readContainer(store, u, c).data, t).records IN
    SelectSeq(all, LAMBDA r : \A k \in DOMAIN filters :
                                  \/ (k \in DOMAIN r /\ ToStringJS(r[k]) = filters[k])
                                  \/ (k \notin DOMAIN r /\ filters[k] = "undefined"))

C25_ListFiltersAndPages ==
    [][\A req \in ApiKeyCredentials, query \in ListQueries :
          (last'.route = "list" /\ ListRecordsQuery(req, "c", "t", query)
              /\ resp'.status = 200) =>
              LET want == Matches(req.uid, "c", "t", query.filters) IN
              IF ~query.page.given /\ ~query.limit.given
              THEN resp'.body = want
              ELSE /\ Len(resp'.body) = 1
                   /\ DOMAIN resp'.body[1] = {"page", "limit", "total", "data"}
                   /\ LET b == resp'.body[1] IN
                      /\ b.total = Len(want)
                      /\ b.data = Positions(want, (b.page - 1) * b.limit, b.page * b.limit)
                      /\ PagesUpTo(want, b.limit, PageCount(b.total, b.limit)) = want]_vars

\* ---------------------------------------------------------------------
\* Specification SpecTables: a workspace whose container holds up to two
\* tables, bare or structured, that are renamed, deleted and given or
\* taken typed columns.
\* ---------------------------------------------------------------------
TableRecords == 1    \* records per table
TableIds == 2        \* record ids produced by uuidv4

RemoveColumn(name) == [name |-> "", type |-> "", remove |-> name]
NewNames == TableNames \cup {"t3", ""}
TableBodies ==
    {PlainBody(Age(Num("1"))),
     [fields |-> EmptyObj, hasSchema |-> TRUE,
      schema |-> <<[key |-> "age", type |-> "Number"]>>,
      customPaths |-> [m \in {"get"} |-> <<"api", "v1", "items">>]]}
ColumnChanges ==
    {AddColumn("age", "Number"), AddColumn("name", "String"), RemoveColumn("age"),
     [name |-> "age", type |-> "", remove |-> ""]}

NextTables ==
    \/ userCount < OneUser /\ Register
    \/ \E req \in ApiKeyCredentials, t \in TableNames, body \in TableBodies :
           /\ Room(req, "c", t, TableRecords)
           /\ nextId < TableIds
           /\ ContainerRequest("create", authenticate(req, now), "c", t, "", body.fields,
                  postRecord(readContainer(store, authenticate(req, now).userId, "c"),
                             t, body, authenticate(req, now).role, NewRecordId))
           /\ nextId' = nextId + 1
    \/ \E req \in ApiKeyCredentials, t \in TableNames, newName \in NewNames :
           RenameTable(req, "c", t, newName)
    \/ \E req \in ApiKeyCredentials, t \in TableNames, sd \in ColumnChanges :
           SchemaDefinition(req, "c", t, sd)
    \/ \E req \in ApiKeyCredentials, t \in TableNames : DeleteTable(req, "c", t)

SpecTables == InitList /\ [][NextTables]_vars

\* The stored content of the container of the request answered by the step,
\* before and after the step
TablesBefore == readContainer(store, last'.user, last'.c).data
TablesAfter == readContainer(store', last'.user, last'.c).data

\* The tables other than those named in names are the same in a and b
SameOthers(a, b, names) ==
    \A n \in (NewNames \ {""}) \ names :
        /\ HasTable(a, n) = HasTable(b, n)
        /\ HasTable(a, n) => TableOf(a, n) = TableOf(b, n)

\* ---------------------------------------------------------------------
\* C26 as stated: a rename to a name that a table of the container has is
\* answered 400 and changes nothing, a rename of a table that does not
\* exist is answered 404, and any other rename leaves the old table's
\* content under the new name, no table under the old name and the other
\* tables as they were.
\* ---------------------------------------------------------------------
C26_RenameAsStated ==
    [][(last'.route = "rename" /\ last'.id # "" /\ last'.via # "none") =>
          LET t == last'.t
              newName == last'.id
          IN
          /\ HasTable(TablesBefore, newName) =>
                 resp'.status = 400 /\ store' = store
          /\ ~HasTable(TablesBefore, t) => resp'.status = 404
          /\ (HasTable(TablesBefore, t) /\ ~HasTable(TablesBefore, newName)) =>
                 /\ resp'.status = 200
                 /\ HasTable(TablesAfter, newName)
                 /\ TableOf(TablesAfter, newName) = TableOf(TablesBefore, t)
                 /\ ~HasTable(TablesAfter, t)
                 /\ SameOthers(TablesBefore, TablesAfter, {t, newName})]_vars

\* ---------------------------------------------------------------------
\* C26 amended: the source table is looked up first.  A rename of a table
\* that does not exist is answered 404; otherwise a rename to a name that
\* a table of the container has (the current name included) is answered
\* 400; both change nothing.  Any other rename leaves the old table's
\* content (records, schema, aliases) under the new name, no table under
\* the old name and the other tables as they were.
\* ---------------------------------------------------------------------
C26_RenameSourceFirst ==
    [][(last'.route = "rename" /\ last'.id # "" /\ last'.via # "none") =>
          LET t == last'.t
              newName == last'.id
          IN
          /\ ~HasTable(TablesBefore, t) => resp'.status = 404 /\ store' = store
          /\ (HasTable(TablesBefore, t) /\ HasTable(TablesBefore, newName)) =>
                 resp'.status = 400 /\ store' = store
          /\ (HasTable(TablesBefore, t) /\ ~HasTable(TablesBefore, newName)) =>
                 /\ resp'.status = 200
                 /\ HasTable(TablesAfter, newName)
                 /\ TableOf(TablesAfter, newName) = TableOf(TablesBefore, t)
                 /\ ~HasTable(TablesAfter, t)
                 /\ SameOthers(TablesBefore, TablesAfter, {t, newName})]_vars

\* A structured table with a record was renamed to t3 next to another table
C26_Witness ==
    /\ last.route = "rename"
    /\ last.id = "t3"
    /\ resp.status = 200
    /\ LET data == readContainer(store, last.user, "c").data IN
       /\ HasTable(data, "t3")
       /\ TableOf(data, "t3").structured
       /\ TableOf(data, "t3").records # <<>>
       /\ ~HasTable(data, last.t)
       /\ \E n \in TableNames : HasTable(data, n)

\* ---------------------------------------------------------------------
\* C27  A schema-definition request (a typed column added or removed),
\* also the one that makes a bare table structured, leaves the records of
\* the table as they were, in order and content; adding a column that the
\* schema already has is answered 400 and changes nothing.
\* ---------------------------------------------------------------------
C27_ColumnsLeaveRecords ==
    [][(last'.route = "schemaDefinition" /\ last'.via # "none"
           /\ HasTable(TablesBefore, last'.t)) =>
          LET t == last'.t
              before == TableOf(TablesBefore, t)
          IN
          /\ HasTable(TablesAfter, t)
          /\ TableOf(TablesAfter, t).records = before.records
          /\ SameOthers(TablesBefore, TablesAfter, {t})
          /\ \A req \in ApiKeyCredentials, sd \in ColumnChanges :
                 (/\ sd.remove = "" /\ sd.type # ""
                  /\ before.structured /\ SchemaHas(before.schema, sd.name)
                  /\ SchemaDefinition(req, "c", t, sd))
                     => resp'.status = 400 /\ store' = store]_vars

\* A table that holds a record has become structured with the column age
C27_Witness ==
    /\ last.route = "schemaDefinition"
    /\ resp.status = 200
    /\ LET data == readContainer(store, last.user, "c").data IN
       /\ HasTable(data, last.t)
       /\ TableOf(data, last.t).structured
       /\ TableOf(data, last.t).customPaths = EmptyObj
       /\ SchemaHas(TableOf(data, last.t).schema, "name")
       /\ TableOf(data, last.t).records # <<>>

\* ---------------------------------------------------------------------
\* req.url with a query string.  A URL is the sequence of its path segments
\* followed, when it has a query string, by "?" and the parameters.
\* ---------------------------------------------------------------------
\* url.indexOf('?'), 0 for -1
IndexOfQuery(url) ==
    IF \E i \in 1..Len(url) : url[i] = "?"
    THEN CHOOSE i \in 1..Len(url) : url[i] = "?" /\ \A j \in 1..(i - 1) : url[j] # "?"
    ELSE 0

\* req.path: the URL up to the query string
PathOf(url) ==
    IF IndexOfQuery(url) = 0 THEN url ELSE SubSeq(url, 1, IndexOfQuery(url) - 1)

\* req.url.includes('?') ? req.url.slice(req.url.indexOf('?')) : ''
QueryString(url) ==
    IF IndexOfQuery(url) = 0 THEN <<>> ELSE SubSeq(url, IndexOfQuery(url), Len(url))

\* req.url after the resolver: targetUrl + query when a targetUrl was found
rewriteUrl(st, req, url, t) ==
    LET targetUrl == customPathResolver(st, [req EXCEPT !.path = PathOf(url)], t) IN
    IF targetUrl # PathOf(url) THEN targetUrl \o QueryString(url) ELSE url

\* One request with the URL url, from the resolver to the answer; the routes
\* match on the path of the URL that the resolver left
ServeUrl(req, url) ==
    /\ req.path = PathOf(url)
    /\ Answered(req)
    /\ seen' = [method |-> req.method, url |-> url,
                routed |-> rewriteUrl(store, req, url, now)]

\* ---------------------------------------------------------------------
\* Specification SpecResolve: a workspace with two tables whose custom
\* paths overlap, and requests of several methods to the custom paths, with
\* and without a record id and a query string.
\* ---------------------------------------------------------------------
ResolveIds == 1     \* record ids produced by uuidv4

ShortAlias == <<"api", "v1">>
ResolveMaps ==
    {AliasMap,
     [m \in {"get", "delete"} |-> IF m = "get" THEN ShortAlias ELSE ListAlias]}
ResolveBodies ==
    {[fields |-> InitFlag, hasSchema |-> FALSE, schema |-> <<>>, customPaths |-> cp] :
        cp \in ResolveMaps}
ResolveQueries == {<<>>, <<"?", "page=1">>}
ResolvePaths ==
    {ListAlias, NewAlias, ShortAlias, <<"c", "t">>}
    \cup {ListAlias \o <<id>> : id \in KnownIds}
    \cup {NewAlias \o <<id>> : id \in KnownIds}
ResolveRequests ==
    {Request("post", <<"c", t>>, cred, body, NoOp) :
        t \in TableNames, cred \in ApiKeyCredentials, body \in ResolveBodies}
    \cup {Request(m, path, cred,
                  IF m = "post" THEN PlainBody(Age(Num("1"))) ELSE PlainBody(EmptyObj), NoOp) :
             m \in {"get", "post", "delete"}, path \in ResolvePaths,
             cred \in ApiKeyCredentials}

NextResolve ==
    \/ userCount < OneUser /\ Register
    \/ \E req \in ResolveRequests, query \in ResolveQueries :
           /\ (req.method = "post" /\ req.body.fields # InitFlag) => nextId < ResolveIds
           /\ ServeUrl(req, req.path \o query)

SpecResolve == InitAlias /\ [][NextResolve]_vars

\* ---------------------------------------------------------------------
\* C28  The resolver is method-specific and keeps what follows the alias:
\* a request is given another path only when a structured table of the
\* caller's workspace has, for the request's own method, a custom path that
\* the request path equals or continues with further segments s, and the
\* new path is then /container/table followed by s; a custom path of
\* another method never changes the path; the query string of the URL is
\* the same after the resolver.
\* ---------------------------------------------------------------------
\* Table i of container c has for the method a custom path that the path
\* continues, and routed is /c/table followed by the rest of the path
Rewrites(c, data, i, method, path, routed) ==
    /\ data[i].tbl.structured
    /\ method \in DOMAIN data[i].tbl.customPaths
    /\ LET alias == data[i].tbl.customPaths[method] IN
       /\ Len(path) >= Len(alias)
       /\ SubSeq(path, 1, Len(alias)) = alias
       /\ routed = <<c, data[i].name>> \o SubSeq(path, Len(alias) + 1, Len(path))

C28_AliasPerMethod ==
    [][(last'.route # "register") =>
          LET path == PathOf(seen'.url)
              routed == PathOf(seen'.routed)
          IN
          /\ QueryString(seen'.routed) = QueryString(seen'.url)
          /\ routed # path =>
                 \E c \in ContainerNames :
                     LET data == readContainer(store, last'.cred.uid, c).data IN
                     \E i \in 1..Len(data) :
                         Rewrites(c, data, i, seen'.method, path, routed)]_vars

\* A request to a custom path with a record id and a query string was
\* answered with the record, while the table also has a custom path of
\* another method
C28_Witness ==
    /\ seen.method = "get"
    /\ Len(seen.url) = Len(ListAlias) + 3
    /\ SubSeq(seen.url, 1, Len(ListAlias)) = ListAlias
    /\ QueryString(seen.url) = <<"?", "page=1">>
    /\ Len(PathOf(seen.routed)) = 3
    /\ QueryString(seen.routed) = <<"?", "page=1">>
    /\ last.route = "read"
    /\ resp.status = 200
    /\ \E c \in ContainerNames :
           LET data == readContainer(store, last.user, c).data IN
           /\ HasTable(data, last.t)
           /\ DOMAIN TableOf(data, last.t).customPaths = {"get", "post"}

\* ---------------------------------------------------------------------
\* Sizes.  The string "big" stands for a string of BigBytes characters;
\* every other value takes ValueSmall bytes of the stored JSON.
\* ---------------------------------------------------------------------
MAX_QUOTA_BYTES == 5242880    \* 5 * 1024 * 1024, the documented quota of a workspace
JsonLimitBytes == 5242880     \* express.json({ limit: '5mb' })
BigBytes == 3145728           \* a 3 MB string
ValueSmall == 8

ValueBytes(val) == IF val = Str("big") THEN BigBytes ELSE ValueSmall

RECURSIVE FieldsBytes(_, _)
FieldsBytes(obj, keys) ==
    IF keys = {} THEN 0
    ELSE LET k == CHOOSE x \in keys : TRUE
         IN ValueBytes(obj[k]) + FieldsBytes(obj, keys \ {k})

\* The length of JSON.stringify of a record or a request body
ObjectBytes(obj) == FieldsBytes(obj, DOMAIN obj)

RECURSIVE RecordsBytes(_, _)
RecordsBytes(recs, i) ==
    IF i > Len(recs) THEN 0 ELSE ObjectBytes(recs[i]) + RecordsBytes(recs, i + 1)

RECURSIVE TablesBytes(_, _)
TablesBytes(data, i) ==
    IF i > Len(data) THEN 0
    ELSE RecordsBytes(data[i].tbl.records, 1) + TablesBytes(data, i + 1)

\* What is stored for a workspace: the sizes of its containers
StoredBytes(st, u) ==
    LET rd == readContainer(st, u, "c") IN
    IF rd.found THEN TablesBytes(rd.data, 1) ELSE 0

\* express.json({ limit: '5mb' }): a body longer than the limit is answered
\* 413 before any route runs
TooLarge(fields) == ObjectBytes(fields) > JsonLimitBytes

EntityTooLarge(route, req, c, t, id, fields) ==
    /\ Reply(route, Denied(req, 413, "request entity too large"), c, t, id, fields,
             Answer(413, "request entity too large", <<>>))
    /\ UNCHANGED <<store, exists, nextId, mode, now, sessions, issued, userCount,
                   valVars, concVars, aliasVars, loginVars, urlVars>>

\* PUT /:container/:table/:id with a body of some size
ReplaceSized(req, c, t, id, fields) ==
    IF TooLarge(fields) THEN EntityTooLarge("put", req, c, t, id, fields)
    ELSE ReplaceRecord(req, c, t, id, fields)

\* PATCH /:container/:table/:id with a body of some size
UpdateSized(req, c, t, id, fields) ==
    IF TooLarge(fields) THEN EntityTooLarge("patch", req, c, t, id, fields)
    ELSE UpdateRecord(req, c, t, id, fields)

\* ---------------------------------------------------------------------
\* Specification SpecQuota: a workspace that stores records with small and
\* with large fields, in either storage mode.
\* ---------------------------------------------------------------------
QuotaRecords == 2    \* records per table
QuotaIds == 2        \* record ids produced by uuidv4

Note(v) == [k \in {"note"} |-> v]
QuotaFields ==
    {Age(Num("1")), Age(Str("big")), Note(Str("big")),
     Merge(Age(Str("big")), Note(Str("big")))}

NextQuota ==
    \/ userCount < OneUser /\ Register
    \/ \E req \in ApiKeyCredentials, fields \in QuotaFields :
           /\ Room(req, "c", "t", QuotaRecords)
           /\ nextId < QuotaIds
           /\ IF TooLarge(fields)
              THEN EntityTooLarge("create", req, "c", "t", "", fields)
              ELSE /\ ContainerRequest("create", authenticate(req, now), "c", "t", "", fields,
                          postRecord(readContainer(store, authenticate(req, now).userId, "c"),
                                     "t", PlainBody(fields), authenticate(req, now).role,
                                     NewRecordId))
                   /\ nextId' = nextId + 1
    \/ \E req \in ApiKeyCredentials, id \in KnownIds, fields \in QuotaFields :
           ReplaceSized(req, "c", "t", id, fields)
    \/ \E req \in ApiKeyCredentials, id \in KnownIds, fields \in QuotaFields :
           UpdateSized(req, "c", "t", id, fields)
    \/ \E req \in ApiKeyCredentials, id \in KnownIds : DeleteRecord(req, "c", "t", id)

SpecQuota == Init /\ [][NextQuota]_vars

\* ---------------------------------------------------------------------
\* C29  The storage quota of a workspace is strict: in every reachable
\* state what is stored for a workspace is at most 5 MB (a POST, PUT or
\* PATCH that would exceed it is answered 413 and stores nothing).
\* ---------------------------------------------------------------------
C29_QuotaStrict == \A u \in UserIds : StoredBytes(store, u) <= MAX_QUOTA_BYTES

\* ---------------------------------------------------------------------
\* PATCH /auth/security { validation: { GET, POST, PUT, PATCH, DELETE } }, as
\* the dashboard sends it.  The path is not in authPaths, so authenticate
\* runs; no route of the server matches it, and nothing is stored.
\* ---------------------------------------------------------------------
Methods == {"GET", "POST", "PUT", "PATCH", "DELETE"}

SecurityPolicy(req, validation) ==
    LET a == authenticate(req, now) IN
    /\ last' = [NoReq EXCEPT !.route = "security", !.via = a.via, !.cred = a.req,
                             !.user = a.userId, !.role = a.role]
    /\ resp' = IF a.ok THEN [NoResp EXCEPT !.status = 404, !.error = "Cannot PATCH"]
               ELSE [NoResp EXCEPT !.status = a.status, !.error = a.error]
    /\ UNCHANGED <<mode, now, exists, sessions, store, issued, userCount, nextId,
                   valVars, concVars, aliasVars, loginVars, urlVars>>

\* ---------------------------------------------------------------------
\* Specification SpecSelective: the callers of a workspace ask for a
\* validation policy and send requests with the API key, with a token, and
\* with the x-user-id header alone.
\* ---------------------------------------------------------------------
SelectiveSessions == 1   \* logins
SelectiveRecords == 1    \* records per table

\* Token validation kept for DELETE only, the policy of the anonymous-access test
OpenPolicy == [m \in Methods |-> m = "DELETE"]
Policies == {OpenPolicy, [m \in Methods |-> TRUE]}

NextSelective ==
    \/ userCount < OneUser /\ Register
    \/ \E u \in Known : LoginRoom(u, SelectiveSessions) /\ Login(u, "admin", HourMs)
    \/ \E req \in Credentials, validation \in Policies : SecurityPolicy(req, validation)
    \/ \E req \in Credentials :
           /\ Room(req, "c", "t", SelectiveRecords)
           /\ CreateRecord(req, "c", "t", PlainBody(Age(Num("1"))))
    \/ \E req \in Credentials, id \in KnownIds :
           UpdateRecord(req, "c", "t", id, Age(Num("2")))
    \/ \E req \in Credentials, id \in KnownIds : ReadRecord(req, "c", "t", id)
    \/ \E req \in Credentials, id \in KnownIds : DeleteRecord(req, "c", "t", id)

SpecSelective == Init /\ [][NextSelective]_vars

\* ---------------------------------------------------------------------
\* C30  Selective authentication: with token validation disabled for POST,
\* PATCH and GET and kept for DELETE, a request that carries only the
\* x-user-id header of a workspace goes through for POST, PATCH and GET (it
\* is not answered 401) and is answered 401 for DELETE.
\* ---------------------------------------------------------------------
\* The request answered last carried the identity header of a workspace and
\* neither a token nor an API key
Tokenless ==
    /\ last.cred.uid \in Known
    /\ last.cred.apiKey = NoHeader
    /\ last.cred.token = NoToken

C30_SelectiveAuth ==
    Tokenless =>
        /\ last.route \in {"create", "patch", "read"} => resp.status # 401
        /\ last.route = "delete" => resp.status = 401

\* ---------------------------------------------------------------------
\* PATCH /:container/:table/primary-key { primaryKey: F }, as the id and
\* selective-auth scripts send it.  The server has no route of that name:
\* the request matches app.patch('/:container/:table/:id') with the id
\* "primary-key".  The URL of the request is kept in seen.
\* ---------------------------------------------------------------------
KeyField == "user_id"
KeyValue == "TEST-001"
KeyUrl == <<"c", "t", "primary-key">>

PrimaryKey(F) == [k \in {"primaryKey"} |-> Str(F)]
Keyed(v) == [k \in {KeyField} |-> Str(v)]

\* ---------------------------------------------------------------------
\* Specification SpecKey: the owner of a workspace creates a table, sets its
\* primary key to user_id, creates records with and without a user_id of
\* their own, and reads, replaces, updates and deletes records by the ids
\* that uuidv4 produced and by the user_id value.
\* ---------------------------------------------------------------------
KeyIds == 2       \* record ids produced by uuidv4
KeyRecords == 2   \* records per table

KeyBodies == {PlainBody(InitFlag), PlainBody(Age(Num("1"))), PlainBody(Keyed(KeyValue))}

NextKey ==
    \/ userCount < OneUser /\ Register
    \/ \E cred \in ApiKeyCredentials, body \in KeyBodies :
           /\ nextId < KeyIds
           /\ RecordCount(cred.uid, "c", "t") < KeyRecords
           /\ Serve(Request("post", <<"c", "t">>, cred, body, NoOp))
    \/ \E cred \in ApiKeyCredentials :
           /\ HasTable(readContainer(store, cred.uid, "c").data, "t")
           /\ ServeUrl(Request("patch", KeyUrl, cred, PlainBody(PrimaryKey(KeyField)), NoOp),
                       KeyUrl)
    \/ \E cred \in ApiKeyCredentials, id \in KnownIds \cup {KeyValue},
          m \in {"get", "delete"} :
           Serve(Request(m, <<"c", "t", id>>, cred, PlainBody(EmptyObj), NoOp))
    \/ \E cred \in ApiKeyCredentials, id \in KnownIds \cup {KeyValue},
          m \in {"put", "patch"} :
           Serve(Request(m, <<"c", "t", id>>, cred, PlainBody(Age(Num("2"))), NoOp))

SpecKey == InitAlias /\ [][NextKey]_vars

\* ---------------------------------------------------------------------
\* C31  After PATCH /c/t/primary-key has set the primary key of the table
\* to user_id, every record created afterwards carries a user_id that no
\* other record of the table has, and read-one, PUT, PATCH and DELETE find
\* a record by its user_id value: they are not answered 404 for the value
\* of a stored record, read-one returns that record and DELETE answers 204.
\* ---------------------------------------------------------------------
\* The records of c/t in the workspace of the request answered next, before it
KeyRecordsBefore ==
    LET rd == readContainer(store, last'.user, "c") IN
    IF rd.found /\ HasTable(rd.data, "t") THEN TableOf(rd.data, "t").records ELSE <<>>

\* The positions of the records whose user_id is v
KeyedAt(records, v) ==
    {i \in 1..Len(records) :
        KeyField \in DOMAIN records[i] /\ records[i][KeyField] = Str(v)}

C31_PrimaryKeyAddressing ==
    [][(seen.url = KeyUrl /\ last'.user \in Known /\ last'.c = "c" /\ last'.t = "t") =>
          /\ (last'.route = "create" /\ resp'.status = 201 /\ resp'.body # <<>>) =>
                 /\ KeyField \in DOMAIN resp'.body[1]
                 /\ KeyedAt(KeyRecordsBefore, resp'.body[1][KeyField].v) = {}
          /\ (last'.route \in {"read", "put", "patch", "delete"}
                /\ last'.id # "primary-key"
                /\ KeyedAt(KeyRecordsBefore, last'.id) # {}) =>
                 /\ resp'.status # 404
                 /\ last'.route = "read" =>
                        /\ resp'.status = 200
                        /\ \E i \in KeyedAt(KeyRecordsBefore, last'.id) :
                               resp'.body = <<KeyRecordsBefore[i]>>
                 /\ last'.route = "delete" => resp'.status = 204]_vars

\* ---------------------------------------------------------------------
\* Specification SpecReserved: a workspace whose tables have custom paths
\* for PATCH, one of them the canonical path of another table, and PATCH
\* requests to the management sub-paths of the canonical and of the custom
\* paths.
\* ---------------------------------------------------------------------
ReservedIds == 1    \* record ids produced by uuidv4

ReservedSubPaths == {"custom-paths", "schema", "schema-definition", "rename", "primary-key"}

\* The path ends in a management sub-path
Reserved(path) == path # <<>> /\ path[Len(path)] \in ReservedSubPaths

PatchAlias(path) ==
    [fields |-> InitFlag, hasSchema |-> FALSE, schema |-> <<>>,
     customPaths |-> [m \in {"patch"} |-> path]]

SetAge == Transform(<<>>, {}, Age(Num("2")))
NewName(n) == [newName |-> n]

ReservedRequests ==
    {Request("post", <<"c", "t">>, cred, body, NoOp) :
        cred \in ApiKeyCredentials,
        body \in {PatchAlias(ListAlias), PlainBody(InitFlag), PlainBody(Age(Num("1")))}}
    \cup {Request("post", <<"c", "t2">>, cred, PatchAlias(<<"c", "t">>), NoOp) :
             cred \in ApiKeyCredentials}
    \cup {Request("patch", path \o <<"schema">>, cred, PlainBody(EmptyObj), SetAge) :
             path \in {ListAlias, <<"c", "t">>}, cred \in ApiKeyCredentials}
    \cup {Request("patch", path \o <<"rename">>, cred, PlainBody(EmptyObj), NewName("t3")) :
             path \in {ListAlias, <<"c", "t">>}, cred \in ApiKeyCredentials}
    \cup {Request("patch", path \o <<id>>, cred, PlainBody(Age(Num("3"))), NoOp) :
             path \in {ListAlias, <<"c", "t">>}, id \in KnownIds,
             cred \in ApiKeyCredentials}

NextReserved ==
    \/ userCount < OneUser /\ Register
    \/ \E req \in ReservedRequests :
           /\ (req.method = "post" /\ req.body.fields # InitFlag) => nextId < ReservedIds
           /\ ServeUrl(req, req.path)

SpecReserved == InitAlias /\ [][NextReserved]_vars

\* ---------------------------------------------------------------------
\* C32  The resolver never rewrites a request whose path ends in a
\* reserved management sub-path (custom-paths, schema, schema-definition,
\* rename, primary-key): the routes see its URL as it was sent; no request
\* that the resolver rewrote is answered by a table-management route; and
\* the routes dispatch on the URL as the resolver left it after one rewrite.
\* ---------------------------------------------------------------------
ManagementRoutes == {"customPaths", "schema", "schemaDefinition", "rename"}

C32_ReservedNotRewritten ==
    [][(last'.route # "register") =>
          LET path == PathOf(seen'.url)
              routed == PathOf(seen'.routed)
          IN
          /\ Reserved(path) => seen'.routed = seen'.url
          /\ routed # path => last'.route \notin ManagementRoutes
          /\ <<last'.c, last'.t, last'.id>> =
                 <<Segment(routed, 1), Segment(routed, 2), Segment(routed, 3)>>]_vars

\* ---------------------------------------------------------------------
\* What the resolver reads.  It is the first middleware after the body
\* parsers and runs before app.use(authenticate): it takes the workspace
\* from the x-user-id header, or from a token that verifies, lists the
\* containers of that workspace and reads them until a custom path matches.
\* ---------------------------------------------------------------------
\* The workspace whose containers the resolver lists, NoHeader when it
\* returns before Storage.listContainers
ScannedWorkspace(st, cred, path, t) ==
    LET userId == ResolverUserId(cred, t) IN
    IF Skipped(path) \/ userId = NoHeader \/ userId \notin DOMAIN st THEN NoHeader
    ELSE userId

\* The containers that Storage.readContainer may be called on for the scan
ScannedContainers(st, cred, path, t) ==
    IF ScannedWorkspace(st, cred, path, t) = NoHeader THEN {}
    ELSE listContainers(st, ScannedWorkspace(st, cred, path, t))

\* ---------------------------------------------------------------------
\* Specification SpecOrder: a workspace with a table that has custom paths,
\* and requests to the canonical and the custom paths from callers with the
\* API key, with a token beside x-user-id, with a token alone, with the
\* x-user-id header alone and with no credentials.
\* ---------------------------------------------------------------------
OrderIds == 1        \* record ids produced by uuidv4
OrderSessions == 1   \* sessions per user, and tokens signed

OrderCredentials == ApiKeyCredentials \cup TokenCredentials \cup AliasCredentials

OrderRequests ==
    {Request("post", <<"c", "t">>, cred, body, NoOp) :
        cred \in OrderCredentials, body \in {AliasInit, PlainBody(Age(Num("1")))}}
    \cup {Request(m, path, cred,
                  IF m = "post" THEN PlainBody(Age(Num("1"))) ELSE PlainBody(EmptyObj), NoOp) :
             m \in {"get", "post"}, path \in {ListAlias, NewAlias, <<"c", "t">>},
             cred \in OrderCredentials}
    \cup {Request("get", ListAlias \o <<id>>, cred, PlainBody(EmptyObj), NoOp) :
             id \in KnownIds, cred \in OrderCredentials}

NextOrder ==
    \/ userCount < OneUser /\ Register
    \/ \E u \in Known, r \in Roles : LoginRoom(u, OrderSessions) /\ Login(u, r, HourMs)
    \/ \E req \in OrderRequests :
           /\ (req.method = "post" /\ req.body # AliasInit) => nextId < OrderIds
           /\ ServeUrl(req, req.path)

SpecOrder == InitAlias /\ [][NextOrder]_vars

\* ---------------------------------------------------------------------
\* C33  The resolver acts only on requests that authentication lets
\* through: for a request answered 401 no container of any workspace is
\* read for the scan of custom paths and the URL is not rewritten; and the
\* workspace whose custom paths are scanned is the authenticated identity
\* of the request.
\* ---------------------------------------------------------------------
C33_ResolveAfterAuthentication ==
    [][(last'.route \notin {"register", "login"}) =>
          LET path == PathOf(seen'.url)
              workspace == ScannedWorkspace(store, last'.cred, path, now)
          IN
          /\ resp'.status = 401 =>
                 /\ ScannedContainers(store, last'.cred, path, now) = {}
                 /\ seen'.routed = seen'.url
          /\ (resp'.status # 401 /\ workspace # NoHeader) => workspace = last'.user]_vars

\* ---------------------------------------------------------------------
\* Specification SpecScan: a workspace with two containers of two tables
\* each, whose custom paths coincide, overlap or are registered for another
\* method, and GET requests to the custom paths, to a canonical path and to
\* a path that no table has.
\* ---------------------------------------------------------------------
ScanMaps ==
    {[m \in {"get"} |-> ListAlias], [m \in {"get"} |-> ShortAlias],
     [m \in {"post"} |-> ListAlias]}
ScanBodies ==
    {[fields |-> InitFlag, hasSchema |-> FALSE, schema |-> <<>>, customPaths |-> cp] :
        cp \in ScanMaps}
ScanPaths == {ListAlias, ListAlias \o <<"u1">>, ShortAlias, <<"c", "t">>, <<"x">>}

NextScan ==
    \/ userCount < OneUser /\ Register
    \/ \E cred \in ApiKeyCredentials, c \in ContainerNames, t \in TableNames,
          body \in ScanBodies :
           ServeUrl(Request("post", <<c, t>>, cred, body, NoOp), <<c, t>>)
    \/ \E cred \in ApiKeyCredentials, path \in ScanPaths :
           ServeUrl(Request("get", path, cred, PlainBody(EmptyObj), NoOp), path)

SpecScan == InitAlias /\ [][NextScan]_vars

\* ---------------------------------------------------------------------
\* C34  Alias resolution is first-match-wins: a request whose method and
\* path match the custom paths of several tables of the workspace is
\* rewritten to the first of them in the order in which the containers and
\* their tables are scanned; a request that matches none keeps its URL; a
\* table that has custom paths but none for the method of the request does
\* not end the scan.
\* ---------------------------------------------------------------------
\* Table i of the container at position k of the scan has, for the method, a
\* custom path that the path is or continues
AliasHit(u, k, i, method, path) ==
    LET data == readContainer(store, u, ScanOrder[k]).data IN
    /\ i <= Len(data)
    /\ data[i].tbl.structured
    /\ method \in DOMAIN data[i].tbl.customPaths
    /\ Len(path) >= Len(data[i].tbl.customPaths[method])
    /\ SubSeq(path, 1, Len(data[i].tbl.customPaths[method]))
           = data[i].tbl.customPaths[method]

AliasHits(u, method, path) ==
    {h \in (1..Len(ScanOrder)) \X (1..Cardinality(TableNames)) :
        AliasHit(u, h[1], h[2], method, path)}

\* h comes before g in the scan
ScannedBefore(h, g) == h[1] < g[1] \/ (h[1] = g[1] /\ h[2] <= g[2])

C34_FirstMatchWins ==
    [][(last'.route # "register") =>
          LET path == PathOf(seen'.url)
              hits == AliasHits(last'.cred.uid, seen'.method, path)
          IN
          /\ hits = {} => seen'.routed = seen'.url
          /\ hits # {} =>
                 LET h == CHOOSE x \in hits : \A g \in hits : ScannedBefore(x, g)
                     data == readContainer(store, last'.cred.uid, ScanOrder[h[1]]).data
                     alias == data[h[2]].tbl.customPaths[seen'.method]
                 IN seen'.routed = <<ScanOrder[h[1]], data[h[2]].name>>
                                       \o SubSeq(path, Len(alias) + 1, Len(path))]_vars

\* A GET on /api/v1/items was routed to the second table of the first
\* container: the first table has a custom path for POST only, and a table
\* of the second container has the same custom path for GET
C34_Witness ==
    /\ seen.method = "get"
    /\ seen.url = ListAlias
    /\ last.route = "list"
    /\ resp.status = 200
    /\ LET first == readContainer(store, last.user, ScanOrder[1]).data
           second == readContainer(store, last.user, ScanOrder[2]).data
       IN
       /\ Len(first) = 2
       /\ DOMAIN first[1].tbl.customPaths = {"post"}
       /\ first[2].tbl.customPaths = [m \in {"get"} |-> ListAlias]
       /\ seen.routed = <<ScanOrder[1], first[2].name>>
       /\ \E i \in 1..Len(second) : second[i].tbl.customPaths = [m \in {"get"} |-> ListAlias]

\* ---------------------------------------------------------------------
\* Specification SpecBulk: the owner of a workspace fills table t, bare or
\* structured, and a second table, and applies to t bulk transforms that
\* rename, remove and set fields, alone and together, on fields that only
\* some records have.
\* ---------------------------------------------------------------------
BulkRecords == 2   \* records per table
BulkIds == 2       \* record ids produced by uuidv4

Role(v) == [k \in {"role"} |-> v]
Status(v) == [k \in {"status"} |-> v]

BulkBodies ==
    {PlainBody(Age(Num("1"))), PlainBody(Role(Str("manager"))),
     [fields |-> EmptyObj, hasSchema |-> TRUE,
      schema |-> <<[key |-> "role", type |-> "String"]>>,
      customPaths |-> [m \in {"get"} |-> ListAlias]]}

BulkTransforms ==
    {Transform(<<[o |-> "role", n |-> "job_title"]>>, {}, Status(Str("active"))),
     Transform(<<[o |-> "role", n |-> "age"]>>, {"age"}, EmptyObj),
     Transform(<<[o |-> "role", n |-> "job_title"], [o |-> "job_title", n |-> "age"]>>,
               {}, EmptyObj),
     Transform(<<[o |-> "age", n |-> "age"]>>, {}, EmptyObj),
     Transform(<<>>, {"role", "status"}, Status(Str("active"))),
     Transform(<<[o |-> "age", n |-> "status"]>>, {"id"}, Role(Str("none")))}

NextBulk ==
    \/ userCount < OneUser /\ Register
    \/ \E req \in ApiKeyCredentials, t \in TableNames, body \in BulkBodies :
           /\ t = "t2" => body = PlainBody(Age(Num("1")))
           /\ Room(req, "c", t, BulkRecords)
           /\ nextId < BulkIds
           /\ ContainerRequest("create", authenticate(req, now), "c", t, "", body.fields,
                  postRecord(readContainer(store, authenticate(req, now).userId, "c"),
                             t, body, authenticate(req, now).role, NewRecordId))
           /\ nextId' = IF resp'.body # <<>> THEN nextId + 1 ELSE nextId
    \/ \E req \in ApiKeyCredentials, tr \in BulkTransforms : BulkSchema(req, "c", "t", tr)

SpecBulk == InitList /\ [][NextBulk]_vars

\* ---------------------------------------------------------------------
\* C35  PATCH /:container/:table/schema transforms every record of the
\* table in one pass, renames first, then removals, then assignments: a
\* rename {o: n} gives a record that has o the field n with its value of o
\* and takes o away, and leaves a record without o as it is; the fields in
\* remove are deleted; every field in set is assigned on every record; the
\* count in the response is the number of records; the schema and the
\* custom paths of the table and every other table stay as they were.
\* ---------------------------------------------------------------------
\* One rename {o: n} on a record, field by field
RenamedField(rec, o, n) ==
    IF o \notin DOMAIN rec THEN rec
    ELSE [k \in ((DOMAIN rec) \cup {n}) \ {o} |-> IF k = n THEN rec[o] ELSE rec[k]]

\* The renames of a transform of at most two entries, in their order
RenamedFields(rec, rename) ==
    IF Len(rename) = 0 THEN rec
    ELSE IF Len(rename) = 1 THEN RenamedField(rec, rename[1].o, rename[1].n)
    ELSE RenamedField(RenamedField(rec, rename[1].o, rename[1].n),
                      rename[2].o, rename[2].n)

\* The record that the transform makes of rec, field by field
Transformed(rec, tr) ==
    LET renamed == RenamedFields(rec, tr.rename) IN
    [k \in ((DOMAIN renamed) \ tr.remove) \cup DOMAIN tr.set |->
        IF k \in DOMAIN tr.set THEN tr.set[k] ELSE renamed[k]]

C35_BulkTransform ==
    [][(last'.route = "schema" /\ resp'.status = 200) =>
          \A req \in ApiKeyCredentials, tr \in BulkTransforms :
              (tr.set = last'.fields /\ BulkSchema(req, "c", last'.t, tr)) =>
                  LET before == TableOf(TablesBefore, last'.t)
                      after == TableOf(TablesAfter, last'.t)
                  IN
                  /\ HasTable(TablesAfter, last'.t)
                  /\ Len(after.records) = Len(before.records)
                  /\ \A i \in 1..Len(before.records) :
                         after.records[i] = Transformed(before.records[i], tr)
                  /\ resp'.body = <<[count |-> Len(before.records)]>>
                  /\ after.structured = before.structured
                  /\ after.schema = before.schema
                  /\ after.customPaths = before.customPaths
                  /\ SameOthers(TablesBefore, TablesAfter, {last'.t})
                  /\ store'[last'.user]["c2"] = store[last'.user]["c2"]]_vars

\* A transform that renames role and sets status was applied to a
\* structured table of two records, one of which had no role
C35_Witness ==
    /\ last.route = "schema"
    /\ resp.status = 200
    /\ resp.body = <<[count |-> 2]>>
    /\ last.fields = Status(Str("active"))
    /\ LET tbl == TableOf(readContainer(store, last.user, "c").data, last.t) IN
       /\ tbl.structured
       /\ tbl.customPaths # EmptyObj
       /\ Len(tbl.records) = 2
       /\ \E i, j \in 1..2 :
              /\ "job_title" \in DOMAIN tbl.records[i]
              /\ "job_title" \notin DOMAIN tbl.records[j]
              /\ "role" \notin DOMAIN tbl.records[j]
              /\ "age" \in DOMAIN tbl.records[j]
       /\ \A i \in 1..2 : /\ tbl.records[i]["status"] = Str("active")
                          /\ "role" \notin DOMAIN tbl.records[i]

\* ---------------------------------------------------------------------
\* Specification SpecReject: callers with the API key, with admin and
\* viewer tokens, with the identity header alone and with no credentials
\* send requests that the server refuses (fields of the wrong type, a table
\* or record that does not exist, a rename onto an existing table, a column
\* that exists, a viewer's mutation, a request without credentials) among
\* requests that it accepts.
\* ---------------------------------------------------------------------
RejectRecords == 1    \* records per table
RejectIds == 2        \* record ids produced by uuidv4
RejectSessions == 1   \* sessions per user, and tokens signed

\* A body that makes the table with a schema and carries a record for it
SchemaAnd(schema, fields) ==
    [fields |-> fields, hasSchema |-> TRUE, schema |-> schema, customPaths |-> EmptyObj]

RejectBodies ==
    {SchemaAnd(AgeSchema, Age(Str("x"))), SchemaAnd(AgeSchema, EmptyObj),
     PlainBody(Age(Str("x"))), PlainBody(Age(Num("1"))), PlainBody(InitFlag)}
RejectFields == {Age(Str("x"))}
RejectRecordIds == KnownIds \cup {"zz"}
RejectCredentials == Credentials \cup {NoCred}

NextReject ==
    \/ userCount < OneUser /\ Register
    \/ \E u \in Known, r \in Roles : LoginRoom(u, RejectSessions) /\ Login(u, r, HourMs)
    \/ \E req \in RejectCredentials, t \in TableNames, body \in RejectBodies :
           /\ t = "t2" => body = PlainBody(InitFlag)
           /\ Room(req, "c", t, RejectRecords)
           /\ nextId < RejectIds
           /\ CreateRecord(req, "c", t, body)
    \/ \E req \in RejectCredentials, id \in RejectRecordIds, fields \in RejectFields :
           ReplaceRecord(req, "c", "t", id, fields)
    \/ \E req \in RejectCredentials, id \in RejectRecordIds, fields \in RejectFields :
           UpdateRecord(req, "c", "t", id, fields)
    \/ \E req \in RejectCredentials, id \in RejectRecordIds : DeleteRecord(req, "c", "t", id)
    \/ \E req \in RejectCredentials, newName \in {"t2", "t3", ""} :
           RenameTable(req, "c", "t", newName)
    \/ \E req \in RejectCredentials : SchemaDefinition(req, "c", "t", AddColumn("age", "Number"))
    \/ \E req \in RejectCredentials : BulkSchema(req, "c", "t", Transform(<<>>, {}, Age(Num("3"))))
    \/ \E req \in RejectCredentials : DeleteTable(req, "c", "t2")

SpecReject == InitList /\ [][NextReject]_vars

\* ---------------------------------------------------------------------
\* C36  A request answered with a 4xx status leaves every container and
\* every session list as it was before the request; in particular a create
\* whose body carries _schema and fields that fail that schema, on a table
\* that does not exist, is answered 400 and does not create the table.
\* ---------------------------------------------------------------------
C36_RefusedChangesNothing ==
    [][(resp'.status >= 400 /\ resp'.status <= 499) =>
          /\ store' = store
          /\ sessions' = sessions
          /\ exists' = exists
          /\ nextId' = nextId]_vars

\* A create with _schema and a field of the wrong type was answered with a
\* validation error and the table does not exist
C36_Witness ==
    /\ last.route = "create"
    /\ last.fields = Age(Str("x"))
    /\ resp.status = 400
    /\ resp.detail.err
    /\ readContainer(store, last.user, "c").found
    /\ ~HasTable(readContainer(store, last.user, "c").data, "t")
    /\ HasTable(readContainer(store, last.user, "c").data, "t2")

\* ---------------------------------------------------------------------
\* C37  A create never discards existing tables: when the container file
\* exists but cannot be parsed at the moment the create reads it (another
\* fs.writeFile on it is open), the create does not go on as if the
\* container were empty, and what it writes back is not a container that
\* holds the new table alone.
\* ---------------------------------------------------------------------
C37_CreateKeepsTables ==
    [][\A s \in Slots :
          (/\ flight[s].pc = "read"
           /\ flight[s].route = "create"
           /\ store[flight[s].user][flight[s].c].st = "torn"
           /\ flight'[s].pc # "read")
              => ~(/\ flight'[s].pc = "write"
                   /\ Len(flight'[s].h.data) = 1
                   /\ HasTable(flight'[s].h.data, flight[s].t))]_vars

\* ---------------------------------------------------------------------
\* Specification SpecEnrol: logins name identifiers that register returned,
\* identifiers that it never returned, and identifiers of workspaces that
\* were deleted or rotated away.
\* ---------------------------------------------------------------------
EnrolSessions == 2   \* sessions per user, and tokens signed

NextEnrol ==
    \/ userCount < OneUser /\ Register
    \/ \E u \in UserIds, r \in Roles : LoginRoom(u, EnrolSessions) /\ Login(u, r, HourMs)
    \/ \E req \in Credentials :
           userCount < OneUser + 1 /\ Cardinality(issued) < EnrolSessions /\ UpdateUuid(req)
    \/ \E req \in Credentials : DeleteAccount(req)
    \/ \E req \in Credentials : ListRecords(req, "c", "t")

SpecEnrol == Init /\ [][NextEnrol]_vars

\* ---------------------------------------------------------------------
\* C38  Login issues a token only for an identifier that register returned
\* and that has not since been deleted or rotated away: a login that names
\* any other identifier is not answered with a token, appends no session and
\* creates nothing for that identifier.
\* ---------------------------------------------------------------------
C38_LoginKnownWorkspaceOnly ==
    [][(last'.route = "login" /\ ~exists[last'.user]) =>
          /\ resp'.status # 200
          /\ issued' = issued
          /\ sessions' = sessions
          /\ exists' = exists]_vars

\* ---------------------------------------------------------------------
\* The container named sessions.  In the file backend a container is the
\* file <name>.json in the directory of the workspace and the session list
\* is the file sessions.json in the same directory, so the container
\* "sessions" is the session list; in mongodb mode containers and sessions
\* are in different collections.
\* ---------------------------------------------------------------------
SessionsContainer == "sessions"

\* An element of the stored array that JSON.stringify wrote as null
HoleEntry == NoSession

\* DELETE /containers/sessions
DeleteSessionsContainer(req) ==
    LET a == authenticate(req, now) IN
    /\ last' = [NoReq EXCEPT !.route = "deleteContainer", !.via = a.via, !.cred = a.req,
                             !.user = a.userId, !.role = a.role, !.c = SessionsContainer]
    /\ IF a.ok
       THEN /\ sessions' = IF mode = "local" THEN [sessions EXCEPT ![a.userId] = <<>>]
                           ELSE sessions
            /\ resp' = [NoResp EXCEPT !.status = 204]
       ELSE /\ UNCHANGED sessions
            /\ resp' = [NoResp EXCEPT !.status = a.status, !.error = a.error]
    /\ UNCHANGED <<mode, now, exists, store, issued, userCount, nextId, valVars, concVars,
                   aliasVars, loginVars, urlVars>>

\* DELETE /sessions/<i - 1>: the table routes read sessions.json as the
\* container, find element i - 1 of the array as the table, delete it and
\* write the array back with null in its place
DeleteSessionsEntry(req, i) ==
    LET a == authenticate(req, now)
        found == /\ mode = "local"
                 /\ i <= Len(sessions[a.userId])
                 /\ sessions[a.userId][i] # HoleEntry
    IN
    /\ last' = [NoReq EXCEPT !.route = "deleteTable", !.via = a.via, !.cred = a.req,
                             !.user = a.userId, !.role = a.role, !.c = SessionsContainer]
    /\ IF a.ok /\ found
       THEN /\ sessions' = [sessions EXCEPT ![a.userId][i] = HoleEntry]
            /\ resp' = [NoResp EXCEPT !.status = 204]
       ELSE /\ UNCHANGED sessions
            /\ resp' = IF a.ok
                       THEN [NoResp EXCEPT !.status = 404, !.error = "Table not found"]
                       ELSE [NoResp EXCEPT !.status = a.status, !.error = a.error]
    /\ UNCHANGED <<mode, now, exists, store, issued, userCount, nextId, valVars, concVars,
                   aliasVars, loginVars, urlVars>>

\* ---------------------------------------------------------------------
\* Specification SpecNames: the owner of a workspace logs in, works with the
\* container c, lists the containers, and sends container and table
\* requests that name the container sessions.
\* ---------------------------------------------------------------------
NameSessions == 2   \* sessions per user, and tokens signed
NameRecords == 1    \* records per table

NextNames ==
    \/ userCount < OneUser /\ Register
    \/ \E u \in Known, r \in Roles : LoginRoom(u, NameSessions) /\ Login(u, r, HourMs)
    \/ \E req \in ApiKeyCredentials :
           /\ Room(req, "c", "t", NameRecords)
           /\ CreateRecord(req, "c", "t", PlainBody(Age(Num("1"))))
    \/ \E req \in ApiKeyCredentials : ListContainers(req)
    \/ \E req \in ApiKeyCredentials : DeleteContainer(req, "c")
    \/ \E req \in ApiKeyCredentials : DeleteSessionsContainer(req)
    \/ \E req \in ApiKeyCredentials, i \in 1..NameSessions : DeleteSessionsEntry(req, i)

SpecNames == Init /\ [][NextNames]_vars

\* ---------------------------------------------------------------------
\* C39  The containers and the session store are disjoint: no container
\* or table request, whatever container it names, changes or deletes the
\* session list of a workspace, and the session list is never listed as a
\* container.
\* ---------------------------------------------------------------------
ContainerRoutes == {"create", "containers", "deleteContainer", "deleteTable"}

C39_SessionsNotAContainer ==
    [][(last'.route \in ContainerRoutes) =>
          /\ sessions' = sessions
          /\ SessionsContainer \notin resp'.names]_vars

\* ---------------------------------------------------------------------
\* C40  After DELETE /auth/account or PATCH /auth/update-uuid has taken a
\* workspace identifier away, no token issued for it earlier and no API key
\* equal to it authorizes a request under it: every later request that
\* names the old identifier is answered 401 and creates no container and no
\* session under it.
\* ---------------------------------------------------------------------
C40_OldIdentifierRejected ==
    [][(/\ last'.route \notin {"none", "register", "login"}
        /\ Claimed(last'.cred) \in Known
        /\ ~exists[Claimed(last'.cred)]) =>
          /\ resp'.status = 401
          /\ store'[Claimed(last'.cred)] = store[Claimed(last'.cred)]
          /\ sessions'[Claimed(last'.cred)] = sessions[Claimed(last'.cred)]
          /\ ~exists'[Claimed(last'.cred)]]_vars

\* ---------------------------------------------------------------------
\* C9
\* ---------------------------------------------------------------------
\* A value has the declared type: String, Number and Boolean by typeof, Date
\* when the value parses as a timestamp.
Conforms(val, type) ==
    CASE type = "String" -> val.t = "string"
      [] type = "Number" -> val.t = "number"
      [] type = "Boolean" -> val.t = "boolean"
      [] type = "Date" -> ~DateParse(val).nan

ExpectedText(type) == IF type = "Date" THEN "a valid ISO Date string" ELSE type

\* The schema positions whose field is present, non-null and of the wrong type.
Mismatches(payload, schema) ==
    {i \in 1..Len(schema) :
        /\ schema[i].key \in DOMAIN payload
        /\ payload[schema[i].key] # Null
        /\ ~Conforms(payload[schema[i].key], schema[i].type)}

\* C9: validate(payload, schema) returns no error iff every schema field that
\* is present and non-null in the payload has the declared type; otherwise the
\* error names the first mismatched field in schema order and its expected
\* type; absent and null fields are never reported.
C9_ValidateFirstMismatch ==
    vPc = "done" =>
        LET bad == Mismatches(vPayload, vSchema) IN
        /\ (vResult = NoError) <=> (bad = {})
        /\ bad # {} =>
             LET first == CHOOSE i \in bad : \A j \in bad : i <= j IN
             /\ vResult.err
             /\ vResult.field = vSchema[first].key
             /\ vResult.expects = ExpectedText(vSchema[first].type)
        /\ vResult.err =>
             /\ vResult.field \in DOMAIN vPayload
             /\ vPayload[vResult.field] # Null

\* A two-column schema whose second column is the first mismatch, after a null
\* first column has been skipped.
C9_Witness ==
    /\ vPc = "done"
    /\ Len(vSchema) = 2
    /\ vSchema[1].key \in DOMAIN vPayload
    /\ vPayload[vSchema[1].key] = Null
    /\ vResult.err
    /\ vResult.field = vSchema[2].key

====
